---- MODULE Spec2Model ----
(***************************************************************************)
(* The retention sweeps of the repository's Lambda handlers:               *)
(*   a02   = src/assignment_02_lambda_function.py  (S3 cleanup)            *)
(*   vijay = src/vijay-s3-cleanup/lambda_function.py (S3 cleanup)          *)
(*   a04   = src/assignment_04_lambda_function.py  (EBS snapshots)         *)
(* One invocation of one handler is one behaviour.  The environment        *)
(* variables, the event payload and the local time zone are chosen in Init;*)
(* every answer of the provider (a page of a listing, the outcome of a     *)
(* call) is chosen by the action that models the call.                     *)
(*                                                                         *)
(* Python strings are sequences of one-character strings, so that lower(), *)
(* strip(), split(',') , startswith() and int() are computed, not assumed. *)
(***************************************************************************)
EXTENDS Integers, Sequences, FiniteSets, TLC

\* ---------------------------------------------------------------- bounds
MaxObjs == 2    \* objects / snapshots the provider lists in one invocation
MaxPages == 2   \* pages the S3 paginator delivers in one invocation
MaxInstances == 2   \* instances describe_instances answers with
MaxBuckets == 2     \* buckets list_buckets answers with

\* ------------------------------------------------------------------ time
SecondsPerDay == 24 * 60 * 60
\* The instant (UTC, seconds) at which the invocation reads the clock.
Now == 100 * SecondsPerDay
\* Ages, in days, of the listed objects and of the listed snapshots at Now.
AgeDays == {10, 30, 40}
SnapshotAgeDays == {30, 40}
\* Offsets of the process's local time zone from UTC, in seconds.
TzOffsets == {0, 3600}
Timestamps == {Now - d * SecondsPerDay : d \in AgeDays}
StartTimes == {Now - d * SecondsPerDay : d \in SnapshotAgeDays}
\* Sizes, in bytes, of the listed objects.
Sizes == {0, 2}

\* ------------------------------------------------------- Python values
\* None, True and False are values no string equals.
None == <<"<None>">>
PyTrue == <<"<True>">>
PyFalse == <<"<False>">>

S_empty == <<>>
S_true == <<"t", "r", "u", "e">>
S_false == <<"f", "a", "l", "s", "e">>
S_True == <<"T", "r", "u", "e">>
S_False == <<"F", "a", "l", "s", "e">>
S_TRUE == <<"T", "R", "U", "E">>
S_30 == <<"3", "0">>
S_40 == <<"4", "0">>
S_0 == <<"0">>
S_1 == <<"1">>
S_abc == <<"a", "b", "c">>
S_bucket == <<"b", "k", "t">>
S_arn == <<"a", "r", "n">>
S_AutoSnapshot == <<"A", "u", "t", "o", "S", "n", "a", "p", "s", "h", "o", "t">>

\* dict.get(key, default)
Get(d, k, default) == IF k \in DOMAIN d THEN d[k] ELSE default

\* bool(x) of a string or None
Truthy(x) == x # None /\ x # S_empty

\* str(x): the text of a bool, a string unchanged
PyStr(x) ==
    IF x = PyTrue THEN S_True
    ELSE IF x = PyFalse THEN S_False
    ELSE x

\* The case of the characters a string of this module can hold (the ASCII
\* characters and the others of the Basic Multilingual Plane that the parser
\* takes), from the Unicode 14 tables of Python 3.11.  upper[i] is a capital
\* and lower[i] what str.lower() makes of it; a small letter that a string here
\* cannot hold is written by its code point, as "U+0253".  cased holds the
\* letters with a case that are in neither list, ignorable the characters the
\* rule of the final sigma passes over (Case_Ignorable).
CaseTable ==
    [upper |->
       <<"A", "B", "C", "D", "E", "F", "G", "H", "I", "J", "K", "L", "M", "N",
         "O", "P", "Q", "R", "S", "T", "U", "V", "W", "X", "Y", "Z", "À", "Á",
         "Â", "Ã", "Ä", "Å", "Æ", "Ç", "È", "É", "Ê", "Ë", "Ì", "Í", "Î", "Ï",
         "Ð", "Ñ", "Ò", "Ó", "Ô", "Õ", "Ö", "Ø", "Ù", "Ú", "Û", "Ü", "Ý", "Þ",
         "Ɓ", "Ƃ", "Ƅ", "Ɔ", "Ƈ", "Ɖ", "Ɗ", "Ƌ", "Ǝ", "Ə", "Ɛ", "Ƒ", "Ɠ", "Ɣ",
         "Ɩ", "Ɨ", "Ƙ", "Ɯ", "Ɲ", "Ɵ", "Ơ", "Ƣ", "Ƥ", "Ʀ", "Ƨ", "Ʃ", "Ƭ", "Ʈ",
         "Ư", "Ʊ", "Ʋ", "Ƴ", "Ƶ", "Ʒ", "Ƹ", "Ƽ", "Ǆ", "ǅ", "Ǉ", "ǈ", "Ǌ", "ǋ",
         "Ǎ", "Ǐ", "Ǒ", "Ǔ", "Ǖ", "Ǘ", "Ǚ", "Ǜ", "Ǟ", "Ǡ", "Ǣ", "Ǥ", "Ǧ", "Ǩ",
         "Ǫ", "Ǭ", "Ǯ", "Ǳ", "ǲ", "Ǵ", "Ƕ", "Ƿ", "Ǹ", "Ǻ", "Ǽ", "Ǿ", "Ά", "Έ",
         "Ή", "Ί", "Ό", "Ύ", "Ώ", "Α", "Β", "Γ", "Δ", "Ε", "Ζ", "Η", "Θ", "Ι",
         "Κ", "Λ", "Μ", "Ν", "Ξ", "Ο", "Π", "Ρ", "Σ", "Τ", "Υ", "Φ", "Χ", "Ψ",
         "Ω", "Ϊ", "Ϋ", "Ϗ", "Ϙ", "Ϛ", "Ϝ", "Ϟ", "Ϡ", "Ϣ", "Ϥ", "Ϧ", "Ϩ", "Ϫ",
         "Ϭ", "Ϯ", "ϴ", "Ϸ", "Ϲ", "Ϻ", "Ͻ", "Ͼ", "Ͽ", "Ҁ", "Ҋ", "Ҍ", "Ҏ", "Ґ",
         "Ғ", "Ҕ", "Җ", "Ҙ", "Қ", "Ҝ", "Ҟ", "Ҡ", "Ң", "Ҥ", "Ҧ", "Ҩ", "Ҫ", "Ҭ",
         "Ү", "Ұ", "Ҳ", "Ҵ", "Ҷ", "Ҹ", "Һ", "Ҽ", "Ҿ", "Ӏ", "Ӂ", "Ӄ", "Ӆ", "Ӈ",
         "Ӊ", "Ӌ", "Ӎ", "Ӑ", "Ӓ", "Ӕ", "Ӗ", "Ә", "Ӛ", "Ӝ", "Ӟ", "Ӡ", "Ӣ", "Ӥ",
         "Ӧ", "Ө", "Ӫ", "Ӭ", "Ӯ", "Ӱ", "Ӳ", "Ӵ", "Ӷ", "Ӹ", "Ӻ", "Ӽ", "Ӿ", "Ⴀ",
         "Ⴁ", "Ⴂ", "Ⴃ", "Ⴄ", "Ⴅ", "Ⴆ", "Ⴇ", "Ⴈ", "Ⴉ", "Ⴊ", "Ⴋ", "Ⴌ", "Ⴍ", "Ⴎ",
         "Ⴏ", "Ⴐ", "Ⴑ", "Ⴒ", "Ⴓ", "Ⴔ", "Ⴕ", "Ⴖ", "Ⴗ", "Ⴘ", "Ⴙ", "Ⴚ", "Ⴛ", "Ⴜ",
         "Ⴝ", "Ⴞ", "Ⴟ", "Ⴠ", "Ⴡ", "Ⴢ", "Ⴣ", "Ⴤ", "Ⴥ", "Ⴧ", "Ⴭ", "Ꭰ", "Ꭱ", "Ꭲ",
         "Ꭳ", "Ꭴ", "Ꭵ", "Ꭶ", "Ꭷ", "Ꭸ", "Ꭹ", "Ꭺ", "Ꭻ", "Ꭼ", "Ꭽ", "Ꭾ", "Ꭿ", "Ꮀ",
         "Ꮁ", "Ꮂ", "Ꮃ", "Ꮄ", "Ꮅ", "Ꮆ", "Ꮇ", "Ꮈ", "Ꮉ", "Ꮊ", "Ꮋ", "Ꮌ", "Ꮍ", "Ꮎ",
         "Ꮏ", "Ꮐ", "Ꮑ", "Ꮒ", "Ꮓ", "Ꮔ", "Ꮕ", "Ꮖ", "Ꮗ", "Ꮘ", "Ꮙ", "Ꮚ", "Ꮛ", "Ꮜ",
         "Ꮝ", "Ꮞ", "Ꮟ", "Ꮠ", "Ꮡ", "Ꮢ", "Ꮣ", "Ꮤ", "Ꮥ", "Ꮦ", "Ꮧ", "Ꮨ", "Ꮩ", "Ꮪ",
         "Ꮫ", "Ꮬ", "Ꮭ", "Ꮮ", "Ꮯ", "Ꮰ", "Ꮱ", "Ꮲ", "Ꮳ", "Ꮴ", "Ꮵ", "Ꮶ", "Ꮷ", "Ꮸ",
         "Ꮹ", "Ꮺ", "Ꮻ", "Ꮼ", "Ꮽ", "Ꮾ", "Ꮿ", "Ᏸ", "Ᏹ", "Ᏺ", "Ᏻ", "Ᏼ", "Ᏽ", "Ა",
         "Ბ", "Გ", "Დ", "Ე", "Ვ", "Ზ", "Თ", "Ი", "Კ", "Ლ", "Მ", "Ნ", "Ო", "Პ",
         "Ჟ", "Რ", "Ს", "Ტ", "Უ", "Ფ", "Ქ", "Ღ", "Ყ", "Შ", "Ჩ", "Ც", "Ძ", "Წ",
         "Ჭ", "Ხ", "Ჯ", "Ჰ", "Ჱ", "Ჲ", "Ჳ", "Ჴ", "Ჵ", "Ჶ", "Ჷ", "Ჸ", "Ჹ", "Ჺ",
         "Ჽ", "Ჾ", "Ჿ", "Ẁ", "Ẃ", "Ẅ", "Ẇ", "Ẉ", "Ẋ", "Ẍ", "Ẏ", "Ẑ", "Ẓ", "Ẕ",
         "ẞ", "Ạ", "Ả", "Ấ", "Ầ", "Ẩ", "Ẫ", "Ậ", "Ắ", "Ằ", "Ẳ", "Ẵ", "Ặ", "Ẹ",
         "Ẻ", "Ẽ", "Ế", "Ề", "Ể", "Ễ", "Ệ", "Ỉ", "Ị", "Ọ", "Ỏ", "Ố", "Ồ", "Ổ",
         "Ỗ", "Ộ", "Ớ", "Ờ", "Ở", "Ỡ", "Ợ", "Ụ", "Ủ", "Ứ", "Ừ", "Ử", "Ữ", "Ự",
         "Ỳ", "Ỵ", "Ỷ", "Ỹ", "Ỻ", "Ỽ", "Ỿ", "ᾈ", "ᾉ", "ᾊ", "ᾋ", "ᾌ", "ᾍ", "ᾎ",
         "ᾏ", "ᾘ", "ᾙ", "ᾚ", "ᾛ", "ᾜ", "ᾝ", "ᾞ", "ᾟ", "ᾨ", "ᾩ", "ᾪ", "ᾫ", "ᾬ",
         "ᾭ", "ᾮ", "ᾯ", "Ᾰ", "Ᾱ", "Ὰ", "Ά", "ᾼ", "Ὲ", "Έ", "Ὴ", "Ή", "ῌ", "Ῐ",
         "Ῑ", "Ὶ", "Ί", "Ῠ", "Ῡ", "Ὺ", "Ύ", "Ῥ", "Ὸ", "Ό", "Ὼ", "Ώ", "ῼ", "Ↄ",
         "Ⓐ", "Ⓑ", "Ⓒ", "Ⓓ", "Ⓔ", "Ⓕ", "Ⓖ", "Ⓗ", "Ⓘ", "Ⓙ", "Ⓚ", "Ⓛ", "Ⓜ", "Ⓝ",
         "Ⓞ", "Ⓟ", "Ⓠ", "Ⓡ", "Ⓢ", "Ⓣ", "Ⓤ", "Ⓥ", "Ⓦ", "Ⓧ", "Ⓨ", "Ⓩ", "Ⲁ", "Ⲃ",
         "Ⲅ", "Ⲇ", "Ⲉ", "Ⲋ", "Ⲍ", "Ⲏ", "Ⲑ", "Ⲓ", "Ⲕ", "Ⲗ", "Ⲙ", "Ⲛ", "Ⲝ", "Ⲟ",
         "Ⲡ", "Ⲣ", "Ⲥ", "Ⲧ", "Ⲩ", "Ⲫ", "Ⲭ", "Ⲯ", "Ⲱ", "Ⲳ", "Ⲵ", "Ⲷ", "Ⲹ", "Ⲻ",
         "Ⲽ", "Ⲿ", "Ⳁ", "Ⳃ", "Ⳅ", "Ⳇ", "Ⳉ", "Ⳋ", "Ⳍ", "Ⳏ", "Ⳑ", "Ⳓ", "Ⳕ", "Ⳗ",
         "Ⳙ", "Ⳛ", "Ⳝ", "Ⳟ", "Ⳡ", "Ⳣ", "Ⳬ", "Ⳮ", "Ⳳ", "Ꚁ", "Ꚃ", "Ꚅ", "Ꚇ", "Ꚉ",
         "Ꚋ", "Ꚍ", "Ꚏ", "Ꚑ", "Ꚓ", "Ꚕ", "Ꚗ", "Ꚙ", "Ꚛ", "Ꞁ", "Ꞃ", "Ꞅ", "Ꞇ", "Ꞌ",
         "Ɥ", "Ꞑ", "Ꞓ", "Ꞗ", "Ꞙ", "Ꞛ", "Ꞝ", "Ꞟ", "Ꞡ", "Ꞣ", "Ꞥ", "Ꞧ", "Ꞩ", "Ɦ",
         "Ɜ", "Ɡ", "Ɬ", "Ɪ", "Ʞ", "Ʇ", "Ʝ", "Ꭓ", "Ꞵ", "Ꞷ", "Ꞹ", "Ꞻ", "Ꞽ", "Ꞿ",
         "Ꟁ", "Ꟃ", "Ꞔ", "Ʂ", "Ᶎ", "Ꟈ", "Ꟊ", "Ꟑ", "Ꟗ", "Ꟙ", "Ꟶ">>,
     lower |->
       <<"a", "b", "c", "d", "e", "f", "g", "h", "i", "j", "k", "l", "m", "n",
         "o", "p", "q", "r", "s", "t", "u", "v", "w", "x", "y", "z", "à", "á",
         "â", "ã", "ä", "å", "æ", "ç", "è", "é", "ê", "ë", "ì", "í", "î", "ï",
         "ð", "ñ", "ò", "ó", "ô", "õ", "ö", "ø", "ù", "ú", "û", "ü", "ý", "þ",
         "U+0253", "ƃ", "ƅ", "U+0254", "ƈ", "U+0256", "U+0257", "ƌ", "ǝ",
         "U+0259", "U+025B", "ƒ", "U+0260", "U+0263", "U+0269", "U+0268", "ƙ",
         "U+026F", "U+0272", "U+0275", "ơ", "ƣ", "ƥ", "ʀ", "ƨ", "ʃ", "ƭ", "ʈ",
         "ư", "ʊ", "ʋ", "ƴ", "ƶ", "ʒ", "ƹ", "ƽ", "ǆ", "ǆ", "ǉ", "ǉ", "ǌ", "ǌ",
         "ǎ", "ǐ", "ǒ", "ǔ", "ǖ", "ǘ", "ǚ", "ǜ", "ǟ", "ǡ", "ǣ", "ǥ", "ǧ", "ǩ",
         "ǫ", "ǭ", "ǯ", "ǳ", "ǳ", "ǵ", "ƕ", "ƿ", "ǹ", "ǻ", "ǽ", "ǿ", "ά", "έ",
         "ή", "ί", "ό", "ύ", "ώ", "α", "β", "γ", "δ", "ε", "ζ", "η", "θ", "ι",
         "κ", "λ", "μ", "ν", "ξ", "ο", "π", "ρ", "σ", "τ", "υ", "φ", "χ", "ψ",
         "ω", "ϊ", "ϋ", "ϗ", "ϙ", "ϛ", "ϝ", "ϟ", "ϡ", "ϣ", "ϥ", "ϧ", "ϩ", "ϫ",
         "ϭ", "ϯ", "θ", "ϸ", "ϲ", "ϻ", "U+037B", "U+037C", "U+037D", "ҁ", "ҋ",
         "ҍ", "ҏ", "ґ", "ғ", "ҕ", "җ", "ҙ", "қ", "ҝ", "ҟ", "ҡ", "ң", "ҥ", "ҧ",
         "ҩ", "ҫ", "ҭ", "ү", "ұ", "ҳ", "ҵ", "ҷ", "ҹ", "һ", "ҽ", "ҿ", "ӏ", "ӂ",
         "ӄ", "ӆ", "ӈ", "ӊ", "ӌ", "ӎ", "ӑ", "ӓ", "ӕ", "ӗ", "ә", "ӛ", "ӝ", "ӟ",
         "ӡ", "ӣ", "ӥ", "ӧ", "ө", "ӫ", "ӭ", "ӯ", "ӱ", "ӳ", "ӵ", "ӷ", "ӹ", "ӻ",
         "ӽ", "ӿ", "U+2D00", "U+2D01", "U+2D02", "U+2D03", "U+2D04", "U+2D05",
         "U+2D06", "U+2D07", "U+2D08", "U+2D09", "U+2D0A", "U+2D0B", "U+2D0C",
         "U+2D0D", "U+2D0E", "U+2D0F", "U+2D10", "U+2D11", "U+2D12", "U+2D13",
         "U+2D14", "U+2D15", "U+2D16", "U+2D17", "U+2D18", "U+2D19", "U+2D1A",
         "U+2D1B", "U+2D1C", "U+2D1D", "U+2D1E", "U+2D1F", "U+2D20", "U+2D21",
         "U+2D22", "U+2D23", "U+2D24", "U+2D25", "U+2D27", "U+2D2D", "U+AB70",
         "U+AB71", "U+AB72", "U+AB73", "U+AB74", "U+AB75", "U+AB76", "U+AB77",
         "U+AB78", "U+AB79", "U+AB7A", "U+AB7B", "U+AB7C", "U+AB7D", "U+AB7E",
         "U+AB7F", "ꮀ", "ꮁ", "ꮂ", "ꮃ", "ꮄ", "ꮅ", "ꮆ", "ꮇ", "ꮈ", "ꮉ", "ꮊ", "ꮋ",
         "ꮌ", "ꮍ", "ꮎ", "ꮏ", "ꮐ", "ꮑ", "ꮒ", "ꮓ", "ꮔ", "ꮕ", "ꮖ", "ꮗ", "ꮘ", "ꮙ",
         "ꮚ", "ꮛ", "ꮜ", "ꮝ", "ꮞ", "ꮟ", "ꮠ", "ꮡ", "ꮢ", "ꮣ", "ꮤ", "ꮥ", "ꮦ", "ꮧ",
         "ꮨ", "ꮩ", "ꮪ", "ꮫ", "ꮬ", "ꮭ", "ꮮ", "ꮯ", "ꮰ", "ꮱ", "ꮲ", "ꮳ", "ꮴ", "ꮵ",
         "ꮶ", "ꮷ", "ꮸ", "ꮹ", "ꮺ", "ꮻ", "ꮼ", "ꮽ", "ꮾ", "ꮿ", "ᏸ", "ᏹ", "ᏺ", "ᏻ",
         "ᏼ", "ᏽ", "ა", "ბ", "გ", "დ", "ე", "ვ", "ზ", "თ", "ი", "კ", "ლ", "მ",
         "ნ", "ო", "პ", "ჟ", "რ", "ს", "ტ", "უ", "ფ", "ქ", "ღ", "ყ", "შ", "ჩ",
         "ც", "ძ", "წ", "ჭ", "ხ", "ჯ", "ჰ", "ჱ", "ჲ", "ჳ", "ჴ", "ჵ", "ჶ", "ჷ",
         "ჸ", "ჹ", "ჺ", "ჽ", "ჾ", "ჿ", "ẁ", "ẃ", "ẅ", "ẇ", "ẉ", "ẋ", "ẍ", "ẏ",
         "ẑ", "ẓ", "ẕ", "ß", "ạ", "ả", "ấ", "ầ", "ẩ", "ẫ", "ậ", "ắ", "ằ", "ẳ",
         "ẵ", "ặ", "ẹ", "ẻ", "ẽ", "ế", "ề", "ể", "ễ", "ệ", "ỉ", "ị", "ọ", "ỏ",
         "ố", "ồ", "ổ", "ỗ", "ộ", "ớ", "ờ", "ở", "ỡ", "ợ", "ụ", "ủ", "ứ", "ừ",
         "ử", "ữ", "ự", "ỳ", "ỵ", "ỷ", "ỹ", "ỻ", "ỽ", "ỿ", "ᾀ", "ᾁ", "ᾂ", "ᾃ",
         "ᾄ", "ᾅ", "ᾆ", "ᾇ", "ᾐ", "ᾑ", "ᾒ", "ᾓ", "ᾔ", "ᾕ", "ᾖ", "ᾗ", "ᾠ", "ᾡ",
         "ᾢ", "ᾣ", "ᾤ", "ᾥ", "ᾦ", "ᾧ", "ᾰ", "ᾱ", "U+1F70", "U+1F71", "ᾳ",
         "U+1F72", "U+1F73", "U+1F74", "U+1F75", "ῃ", "ῐ", "ῑ", "U+1F76",
         "U+1F77", "ῠ", "ῡ", "U+1F7A", "U+1F7B", "ῥ", "U+1F78", "U+1F79",
         "U+1F7C", "U+1F7D", "ῳ", "ↄ", "ⓐ", "ⓑ", "ⓒ", "ⓓ", "ⓔ", "ⓕ", "ⓖ", "ⓗ",
         "ⓘ", "ⓙ", "ⓚ", "ⓛ", "ⓜ", "ⓝ", "ⓞ", "ⓟ", "ⓠ", "ⓡ", "ⓢ", "ⓣ", "ⓤ", "ⓥ",
         "ⓦ", "ⓧ", "ⓨ", "ⓩ", "ⲁ", "ⲃ", "ⲅ", "ⲇ", "ⲉ", "ⲋ", "ⲍ", "ⲏ", "ⲑ", "ⲓ",
         "ⲕ", "ⲗ", "ⲙ", "ⲛ", "ⲝ", "ⲟ", "ⲡ", "ⲣ", "ⲥ", "ⲧ", "ⲩ", "ⲫ", "ⲭ", "ⲯ",
         "ⲱ", "ⲳ", "ⲵ", "ⲷ", "ⲹ", "ⲻ", "ⲽ", "ⲿ", "ⳁ", "ⳃ", "ⳅ", "ⳇ", "ⳉ", "ⳋ",
         "ⳍ", "ⳏ", "ⳑ", "ⳓ", "ⳕ", "ⳗ", "ⳙ", "ⳛ", "ⳝ", "ⳟ", "ⳡ", "ⳣ", "ⳬ", "ⳮ",
         "ⳳ", "ꚁ", "ꚃ", "ꚅ", "ꚇ", "ꚉ", "ꚋ", "ꚍ", "ꚏ", "ꚑ", "ꚓ", "ꚕ", "ꚗ", "ꚙ",
         "ꚛ", "ꞁ", "ꞃ", "ꞅ", "ꞇ", "ꞌ", "U+0265", "ꞑ", "ꞓ", "ꞗ", "ꞙ", "ꞛ", "ꞝ",
         "ꞟ", "ꞡ", "ꞣ", "ꞥ", "ꞧ", "ꞩ", "U+0266", "U+025C", "U+0261", "U+026C",
         "U+026A", "ʞ", "ʇ", "ʝ", "U+AB53", "ꞵ", "ꞷ", "ꞹ", "ꞻ", "ꞽ", "ꞿ", "ꟁ",
         "ꟃ", "ꞔ", "ʂ", "ᶎ", "ꟈ", "ꟊ", "ꟑ", "ꟗ", "ꟙ", "ꟶ">>,
     cased |->
       {"ª", "µ", "º", "ÿ", "ƀ", "ƍ", "ƚ", "ƛ", "ƞ", "ƪ", "ƫ", "ƺ", "ƾ", "ǰ",
        "ʁ", "ʄ", "ʅ", "ʆ", "ʉ", "ʌ", "ʍ", "ʎ", "ʏ", "ʐ", "ʑ", "ʓ", "ʕ", "ʖ",
        "ʗ", "ʘ", "ʙ", "ʚ", "ʛ", "ʜ", "ʟ", "ʠ", "ʡ", "ʢ", "ʣ", "ʤ", "ʥ", "ʦ",
        "ʧ", "ʨ", "ʩ", "ʪ", "ʫ", "ʬ", "ʭ", "ʮ", "ʯ", "ΐ", "ΰ", "ς", "ϐ", "ϑ",
        "ϒ", "ϓ", "ϔ", "ϕ", "ϖ", "ϰ", "ϱ", "ϳ", "ϵ", "ϼ", "ր", "ց", "ւ", "փ",
        "ք", "օ", "ֆ", "և", "ֈ", "ᲀ", "ᲁ", "ᲂ", "ᲃ", "ᲄ", "ᲅ", "ᲆ", "ᲇ", "ᲈ",
        "ᶀ", "ᶁ", "ᶂ", "ᶃ", "ᶄ", "ᶅ", "ᶆ", "ᶇ", "ᶈ", "ᶉ", "ᶊ", "ᶋ", "ᶌ", "ᶍ",
        "ᶏ", "ᶐ", "ᶑ", "ᶒ", "ᶓ", "ᶔ", "ᶕ", "ᶖ", "ᶗ", "ᶘ", "ᶙ", "ᶚ", "ẖ", "ẗ",
        "ẘ", "ẙ", "ẚ", "ẛ", "ẜ", "ẝ", "ẟ", "ᾲ", "ᾴ", "ᾶ", "ᾷ", "ι", "ῂ", "ῄ",
        "ῆ", "ῇ", "ῒ", "ΐ", "ῖ", "ῗ", "ῢ", "ΰ", "ῤ", "ῦ", "ῧ", "ῲ", "ῴ", "ῶ",
        "ῷ", "ⳤ", "ꞎ", "ꞕ", "ꞯ", "ꟓ", "ꟕ", "ꟺ"},
     ignorable |->
       {"'", ".", ":", "^", "¨", "­", "¯", "´", "·", "¸", "ʰ", "ʱ", "ʲ",
        "ʳ", "ʴ", "ʵ", "ʶ", "ʷ", "ʸ", "ʹ", "ʺ", "ʻ", "ʼ", "ʽ", "ʾ", "ʿ", "ˀ",
        "ˁ", "˂", "˃", "˄", "˅", "ˆ", "ˇ", "ˈ", "ˉ", "ˊ", "ˋ", "ˌ", "ˍ", "ˎ",
        "ˏ", "ː", "ˑ", "˒", "˓", "˔", "˕", "˖", "˗", "˘", "˙", "˚", "˛", "˜",
        "˝", "˞", "˟", "ˠ", "ˡ", "ˢ", "ˣ", "ˤ", "˥", "˦", "˧", "˨", "˩", "˪",
        "˫", "ˬ", "˭", "ˮ", "˯", "˰", "˱", "˲", "˳", "˴", "˵", "˶", "˷", "˸",
        "˹", "˺", "˻", "˼", "˽", "˾", "˿", "΄", "΅", "·", "҃", "҄", "҅", "҆",
        "҇", "҈", "҉", "֑", "֒", "֓", "֔", "֕", "֖", "֗", "֘", "֙", "֚", "֛",
        "֜", "֝", "֞", "֟", "֠", "֡", "֢", "֣", "֤", "֥", "֦", "֧", "֨", "֩",
        "֪", "֫", "֬", "֭", "֮", "֯", "ְ", "ֱ", "ֲ", "ֳ", "ִ", "ֵ", "ֶ", "ַ",
        "ָ", "ֹ", "ֺ", "ֻ", "ּ", "ֽ", "ֿ", "ׁ", "ׂ", "ׄ", "ׅ", "ׇ", "״", "ۖ",
        "ۗ", "ۘ", "ۙ", "ۚ", "ۛ", "ۜ", "۝", "۟", "۠", "ۡ", "ۢ", "ۣ", "ۤ", "ۥ",
        "ۦ", "ۧ", "ۨ", "۪", "۫", "۬", "ۭ", "ަ", "ާ", "ި", "ީ", "ު", "ޫ", "ެ",
        "ޭ", "ޮ", "ޯ", "ް", "߫", "߬", "߭", "߮", "߯", "߰", "߱", "߲", "߳", "ߴ",
        "ߵ", "ߺ", "߽", "࢈", "࢐", "࢑", "࢘", "࢙", "࢚", "࢛", "࢜", "࢝", "࢞", "࢟",
        "ࣉ", "࣊", "࣋", "࣌", "࣍", "࣎", "࣏", "࣐", "࣑", "࣒", "࣓", "ࣔ", "ࣕ", "ࣖ",
        "ࣗ", "ࣘ", "ࣙ", "ࣚ", "ࣛ", "ࣜ", "ࣝ", "ࣞ", "ࣟ", "࣠", "࣡", "࣢", "ࣣ", "ࣤ",
        "ࣥ", "ࣦ", "ࣧ", "ࣨ", "ࣩ", "࣪", "࣫", "࣬", "࣭", "࣮", "࣯", "ࣰ", "ࣱ", "ࣲ",
        "ࣳ", "ࣴ", "ࣵ", "ࣶ", "ࣷ", "ࣸ", "ࣹ", "ࣺ", "ࣻ", "ࣼ", "ࣽ", "ࣾ", "ࣿ", "ঁ",
        "়", "ু", "ূ", "ৃ", "ৄ", "্", "ৢ", "ৣ", "৾", "ઁ", "ં", "઼", "ુ", "ૂ",
        "ૃ", "ૄ", "ૅ", "ે", "ૈ", "્", "ૢ", "ૣ", "ૺ", "ૻ", "ૼ", "૽", "૾", "૿",
        "ஂ", "ீ", "்", "ಁ", "಼", "ಿ", "ೆ", "ೌ", "್", "ೢ", "ೣ", "ඁ", "්", "ි",
        "ී", "ු", "ූ", "ັ", "ິ", "ີ", "ຶ", "ື", "ຸ", "ູ", "຺", "ົ", "ຼ", "ໆ",
        "່", "້", "໊", "໋", "໌", "ໍ", "ྀ", "ཱྀ", "ྂ", "ྃ", "྄", "྆", "྇", "ྍ",
        "ྎ", "ྏ", "ྐ", "ྑ", "ྒ", "ྒྷ", "ྔ", "ྕ", "ྖ", "ྗ", "ྙ", "ྚ", "ྛ", "ྜ",
        "ྜྷ", "ྞ", "ྟ", "ྠ", "ྡ", "ྡྷ", "ྣ", "ྤ", "ྥ", "ྦ", "ྦྷ", "ྨ", "ྩ", "ྪ",
        "ྫ", "ྫྷ", "ྭ", "ྮ", "ྯ", "ྰ", "ྱ", "ྲ", "ླ", "ྴ", "ྵ", "ྶ", "ྷ", "ྸ",
        "ྐྵ", "ྺ", "ྻ", "ྼ", "࿆", "ႂ", "ႅ", "ႆ", "ႍ", "ႝ", "ჼ", "឴", "឵", "ិ",
        "ី", "ឹ", "ឺ", "ុ", "ូ", "ួ", "ំ", "៉", "៊", "់", "៌", "៍", "៎", "៏",
        "័", "៑", "្", "៓", "ៗ", "៝", "ᢅ", "ᢆ", "ᢩ", "ᪧ", "᪰", "᪱", "᪲", "᪳",
        "᪴", "᪵", "᪶", "᪷", "᪸", "᪹", "᪺", "᪻", "᪼", "᪽", "᪾", "ᪿ", "ᫀ", "᫁",
        "᫂", "᫃", "᫄", "᫅", "᫆", "᫇", "᫈", "᫉", "᫊", "᫋", "ᫌ", "ᫍ", "ᫎ", "ᮀ",
        "ᮁ", "ᮢ", "ᮣ", "ᮤ", "ᮥ", "ᮨ", "ᮩ", "᮫", "ᮬ", "ᮭ", "᯦", "ᯨ", "ᯩ", "ᯭ",
        "ᯯ", "ᯰ", "ᯱ", "᳐", "᳑", "᳒", "᳔", "᳕", "᳖", "᳗", "᳘", "᳙", "᳚", "᳛",
        "᳜", "᳝", "᳞", "᳟", "᳠", "᳢", "᳣", "᳤", "᳥", "᳦", "᳧", "᳨", "᳭", "᳴",
        "᳸", "᳹", "ᶛ", "ᶜ", "ᶝ", "ᶞ", "ᶟ", "ᶠ", "ᶡ", "ᶢ", "ᶣ", "ᶤ", "ᶥ", "ᶦ",
        "ᶧ", "ᶨ", "ᶩ", "ᶪ", "ᶫ", "ᶬ", "ᶭ", "ᶮ", "ᶯ", "ᶰ", "ᶱ", "ᶲ", "ᶳ", "ᶴ",
        "ᶵ", "ᶶ", "ᶷ", "ᶸ", "ᶹ", "ᶺ", "ᶻ", "ᶼ", "ᶽ", "ᶾ", "ᶿ", "᷀", "᷁", "᷂",
        "᷃", "᷄", "᷅", "᷆", "᷇", "᷈", "᷉", "᷊", "᷋", "᷌", "᷍", "᷎", "᷏", "᷐",
        "᷑", "᷒", "ᷓ", "ᷔ", "ᷕ", "ᷖ", "ᷗ", "ᷘ", "ᷙ", "ᷚ", "ᷛ", "ᷜ", "ᷝ", "ᷞ",
        "ᷟ", "ᷠ", "ᷡ", "ᷢ", "ᷣ", "ᷤ", "ᷥ", "ᷦ", "ᷧ", "ᷨ", "ᷩ", "ᷪ", "ᷫ", "ᷬ",
        "ᷭ", "ᷮ", "ᷯ", "ᷰ", "ᷱ", "ᷲ", "ᷳ", "ᷴ", "᷵", "᷶", "᷷", "᷸", "᷹", "᷺",
        "᷻", "᷼", "᷽", "᷾", "᷿", "᾽", "᾿", "῀", "῁", "῍", "῎", "῏", "῝", "῞",
        "῟", "῭", "΅", "`", "´", "῾", "ₐ", "ₑ", "ₒ", "ₓ", "ₔ", "ₕ", "ₖ", "ₗ",
        "ₘ", "ₙ", "ₚ", "ₛ", "ₜ", "⃐", "⃑", "⃒", "⃓", "⃔", "⃕", "⃖", "⃗", "⃘",
        "⃙", "⃚", "⃛", "⃜", "⃝", "⃞", "⃟", "⃠", "⃡", "⃢", "⃣", "⃤", "⃥", "⃦",
        "⃧", "⃨", "⃩", "⃪", "⃫", "⃬", "⃭", "⃮", "⃯", "⃰", "⳯", "⳰", "⳱", "ⷠ",
        "ⷡ", "ⷢ", "ⷣ", "ⷤ", "ⷥ", "ⷦ", "ⷧ", "ⷨ", "ⷩ", "ⷪ", "ⷫ", "ⷬ", "ⷭ", "ⷮ",
        "ⷯ", "ⷰ", "ⷱ", "ⷲ", "ⷳ", "ⷴ", "ⷵ", "ⷶ", "ⷷ", "ⷸ", "ⷹ", "ⷺ", "ⷻ", "ⷼ",
        "ⷽ", "ⷾ", "ⷿ", "゙", "゚", "゛", "゜", "ゝ", "ゞ", "ー", "ヽ", "ヾ", "ꓸ", "ꓹ",
        "ꓺ", "ꓻ", "ꓼ", "ꓽ", "ꚜ", "ꚝ", "ꚞ", "ꚟ", "꛰", "꛱", "ꞈ", "꞉", "꞊", "ꟲ",
        "ꟳ", "ꟴ", "ꟸ", "ꟹ", "꣄", "ꣅ", "꣠", "꣡", "꣢", "꣣", "꣤", "꣥", "꣦", "꣧",
        "꣨", "꣩", "꣪", "꣫", "꣬", "꣭", "꣮", "꣯", "꣰", "꣱", "ꣿ", "ꦀ", "ꦁ", "ꦂ",
        "꦳", "ꦶ", "ꦷ", "ꦸ", "ꦹ", "ꦼ", "ꦽ", "ꧏ", "ꧥ", "ꧦ", "ꪰ", "ꪲ", "ꪳ", "ꪴ",
        "ꪷ", "ꪸ", "ꪾ", "꪿", "꫁", "ꫝ", "ꫬ", "ꫭ", "ꫳ", "ꫴ", "꫶", "ꯥ", "ꯨ", "꯭",
        "﮲", "﮳", "﮴", "﮵", "﮶", "﮷", "﮸", "﮹", "﮺", "﮻", "﮼", "﮽", "﮾", "﮿",
        "﯀", "﯁", "﯂", "﻿", "ﾞ", "ﾟ", "￣", "￹", "￺", "￻"}]

\* str.lower() of one character
LowerChar(c) ==
    LET at == {i \in DOMAIN CaseTable.upper : CaseTable.upper[i] = c}
    IN  IF at = {} THEN c ELSE CaseTable.lower[CHOOSE i \in at : TRUE]

\* str.lower().  A capital sigma becomes the final small sigma when a letter
\* with a case stands before it and none after it, the ignorable characters
\* between passed over.
Lower(s) ==
    LET Cased(c) == \/ c \in CaseTable.cased
                    \/ \E k \in DOMAIN CaseTable.upper :
                          c = CaseTable.upper[k] \/ c = CaseTable.lower[k]
        Ignorable(c) == c \in CaseTable.ignorable
        Final(i) ==
            /\ \E j \in 1 .. i - 1 :
                  Cased(s[j]) /\ \A k \in j + 1 .. i - 1 : Ignorable(s[k])
            /\ ~\E j \in i + 1 .. Len(s) :
                  Cased(s[j]) /\ \A k \in i + 1 .. j - 1 : Ignorable(s[k])
    IN  [i \in 1 .. Len(s) |->
            IF s[i] = "Σ" /\ Final(i) THEN "ς" ELSE LowerChar(s[i])]

\* The characters str.isspace() holds of, as far as a string of this module can
\* hold them: str.strip() removes them.  In order: tab, line feed,
\* vertical tab, form feed, carriage return, the separators U+001C to U+001F,
\* the blank, U+0085, U+00A0 and U+1680.  (The spaces from U+2000 on, which
\* Python strips too, are no characters of a string here.)
IsSpace(c) ==
    c \in {"\t", "\n", "", "\f", "\r", "", "", "", "", " ",
     "", " ", " "}

RECURSIVE LStrip(_)
LStrip(s) == IF s # <<>> /\ IsSpace(Head(s)) THEN LStrip(Tail(s)) ELSE s

RECURSIVE RStrip(_)
RStrip(s) ==
    IF s # <<>> /\ IsSpace(s[Len(s)]) THEN RStrip(SubSeq(s, 1, Len(s) - 1)) ELSE s

\* str.strip()
Strip(s) == RStrip(LStrip(s))

\* str.split(','): the pieces between the commas, empty pieces kept
RECURSIVE SplitFrom(_, _, _)
SplitFrom(s, i, piece) ==
    IF i > Len(s) THEN <<piece>>
    ELSE IF s[i] = "," THEN <<piece>> \o SplitFrom(s, i + 1, <<>>)
    ELSE SplitFrom(s, i + 1, Append(piece, s[i]))

Split(s) == SplitFrom(s, 1, <<>>)

\* str.startswith(prefix)
StartsWith(s, prefix) ==
    Len(prefix) <= Len(s) /\ SubSeq(s, 1, Len(prefix)) = prefix

\* DigitsOf[v + 1]: the decimal digits of value v, of every script, that a
\* string of this module can hold; int() takes them all.
DigitsOf ==
    <<{"0", "۰", "߀", "০", "૦", "௦", "೦", "෦", "໐", "႐", "០", "᧐", "᪀", "᪐",
         "᮰", "꣐", "꧐", "꧰", "꯰"},
      {"1", "۱", "߁", "১", "૧", "௧", "೧", "෧", "໑", "႑", "១", "᧑", "᪁", "᪑",
         "᮱", "꣑", "꧑", "꧱", "꯱"},
      {"2", "۲", "߂", "২", "૨", "௨", "೨", "෨", "໒", "႒", "២", "᧒", "᪂", "᪒",
         "᮲", "꣒", "꧒", "꧲", "꯲"},
      {"3", "۳", "߃", "৩", "૩", "௩", "೩", "෩", "໓", "႓", "៣", "᧓", "᪃", "᪓",
         "᮳", "꣓", "꧓", "꧳", "꯳"},
      {"4", "۴", "߄", "৪", "૪", "௪", "೪", "෪", "໔", "႔", "៤", "᧔", "᪄", "᪔",
         "᮴", "꣔", "꧔", "꧴", "꯴"},
      {"5", "۵", "߅", "৫", "૫", "௫", "೫", "෫", "໕", "႕", "៥", "᧕", "᪅", "᪕",
         "᮵", "꣕", "꧕", "꧵", "꯵"},
      {"6", "۶", "߆", "৬", "૬", "௬", "೬", "෬", "໖", "႖", "៦", "᧖", "᪆", "᪖",
         "᮶", "꣖", "꧖", "꧶", "꯶"},
      {"7", "۷", "߇", "৭", "૭", "௭", "೭", "෭", "໗", "႗", "៧", "᧗", "᪇", "᪗",
         "᮷", "꣗", "꧗", "꧷", "꯷"},
      {"8", "۸", "߈", "৮", "૮", "௮", "೮", "෮", "໘", "႘", "៨", "᧘", "᪈", "᪘",
         "᮸", "꣘", "꧘", "꧸", "꯸"},
      {"9", "۹", "߉", "৯", "૯", "௯", "೯", "෯", "໙", "႙", "៩", "᧙", "᪉", "᪙",
         "᮹", "꣙", "꧙", "꧹", "꯹"}>>

Digits == UNION {DigitsOf[v] : v \in DOMAIN DigitsOf}

DigitVal(c) == (CHOOSE v \in DOMAIN DigitsOf : c \in DigitsOf[v]) - 1

\* int(s) passes over the whitespace at both ends, the separators U+001C to
\* U+001F excepted, which it takes for no whitespace.
IntStrip(s) ==
    LET solid == {i \in 1 .. Len(s) :
                    ~IsSpace(s[i]) \/ s[i] \in {"", "", "", ""}}
    IN  IF solid = {} THEN <<>>
        ELSE SubSeq(s, CHOOSE i \in solid : \A j \in solid : i <= j,
                       CHOOSE i \in solid : \A j \in solid : i >= j)

\* int(s) accepts surrounding whitespace, one sign, and decimal digits with
\* single underscores between them; anything else raises ValueError.
Unsigned(s) ==
    LET t == IntStrip(s)
    IN  IF t # <<>> /\ Head(t) \in {"+", "-"} THEN Tail(t) ELSE t

IsIntLiteral(s) ==
    LET u == Unsigned(s)
    IN  /\ u # <<>>
        /\ \A i \in 1 .. Len(u) : u[i] \in Digits \cup {"_"}
        /\ u[1] \in Digits /\ u[Len(u)] \in Digits
        /\ \A i \in 1 .. Len(u) - 1 : ~(u[i] = "_" /\ u[i + 1] = "_")

\* the value of the digits of s, its underscores passed over
RECURSIVE DigitsValue(_)
DigitsValue(s) ==
    IF s = <<>> THEN 0
    ELSE IF s[Len(s)] = "_" THEN DigitsValue(SubSeq(s, 1, Len(s) - 1))
    ELSE 10 * DigitsValue(SubSeq(s, 1, Len(s) - 1)) + DigitVal(s[Len(s)])

PyInt(s) ==
    LET t == IntStrip(s)
    IN  IF t # <<>> /\ Head(t) = "-" THEN 0 - DigitsValue(Unsigned(s))
        ELSE DigitsValue(Unsigned(s))

\* round(x / (1024*1024), 2), in hundredths of a megabyte (ties to even)
RoundMb(bytes) ==
    LET q == (bytes * 100) \div (1024 * 1024)
        r == (bytes * 100) % (1024 * 1024)
    IN  IF 2 * r > 1024 * 1024 \/ (2 * r = 1024 * 1024 /\ q % 2 = 1)
        THEN q + 1 ELSE q

\* The exponent E of the double nearest to n / 20, plus e:
\* 2^E <= n / 20 < 2^(E+1).
RECURSIVE Exponent20(_, _)
Exponent20(n, e) ==
    IF n >= 40 THEN Exponent20(n \div 2, e + 1)
    ELSE IF n < 20 THEN Exponent20(n * 2, e - 1)
    ELSE e

\* Whether the double nearest to n / 20 (n odd, no multiple of 5) lies above
\* n / 20: its 53-bit significand is n * 2^(50-E) / 5 rounded to the nearest
\* integer, so the remainder of n * 2^(50-E) modulo 5 decides (2^k modulo 5
\* is 1, 2, 4, 3 for k modulo 4 = 0, 1, 2, 3).
DoubleAbove20(n) ==
    LET k == (50 - Exponent20(n, 0)) % 4
        p == CASE k = 0 -> 1 [] k = 1 -> 2 [] k = 2 -> 4 [] k = 3 -> 3
    IN  ((n % 5) * p) % 5 \in {3, 4}

\* round(seconds / (24*60*60), 1), in tenths of a day, for seconds >= 0.  The
\* quotient is a double and round() rounds its exact value, ties to even: an
\* age midway between two tenths goes the way its double lies from it, and to
\* the even tenth when the double is exact (x.25 and x.75 days).
AgeTenths(seconds) ==
    LET q == (seconds * 10) \div SecondsPerDay
        r == (seconds * 10) % SecondsPerDay
        n == 2 * q + 1
    IN  IF 2 * r < SecondsPerDay THEN q
        ELSE IF 2 * r > SecondsPerDay THEN q + 1
        ELSE IF n % 5 = 0 THEN (IF q % 2 = 0 THEN q ELSE q + 1)
        ELSE IF DoubleAbove20(n) THEN q + 1 ELSE q

\* ----------------------------------------------------------------- state
VARIABLES
    handler,          \* which lambda_handler this invocation runs
    env,              \* os.environ: variable name -> string
    event,            \* the event payload: key -> value
    tz,               \* offset of the process's local time from UTC, seconds
    pc,               \* where the handler is
    cfg,              \* the configuration the handler resolved
    cutoff_date,      \* the cutoff the handler computed
    results,          \* the handler's accumulators
    cleanup_results,  \* a04: cleanup_old_snapshots' accumulators
    todo,             \* a04: the volume ids still to snapshot; a03: the buckets still to analyse
    page,             \* the records of the current page not yet examined
    npages,           \* pages delivered so far
    listed,           \* every record the provider has delivered so far
    calls,            \* every provider call made so far, with its outcome
    response,         \* what lambda_handler returned
    instances,        \* a01: the instances describe_instances answered with
    buckets           \* the audits: the buckets list_buckets answered with

vars == <<handler, env, event, tz, pc, cfg, cutoff_date, results,
          cleanup_results, todo, page, npages, listed, calls, response,
          instances, buckets>>

Handlers == {"a02", "vijay", "a04", "a01", "a03", "Assignment-3"}

\* Every dict whose keys are some of DOMAIN ch and whose value at k is in ch[k].
OptDicts(ch) ==
    UNION {{f \in [D -> UNION {ch[k] : k \in D}] : \A k \in D : f[k] \in ch[k]}
           : D \in SUBSET DOMAIN ch}

EnvChoices(h) ==
    CASE h \in {"a01", "Assignment-3"} -> {<< >>}
      [] h = "a03" ->
           OptDicts([SNS_TOPIC_ARN |-> {S_empty, S_arn},
                     INCLUDE_PUBLIC_READ_CHECK |-> {S_false}])
      [] h = "a04" ->
           OptDicts([VOLUME_IDS |-> {<<",">>, <<"a">>},
                     RETENTION_DAYS |-> {S_abc},
                     DRY_RUN |-> {S_true},
                     SNS_TOPIC_ARN |-> {S_arn}])
      [] h = "a02" ->
           OptDicts([BUCKET_NAME |-> {S_empty, S_bucket},
                     RETENTION_DAYS |-> {S_40, S_abc},
                     DRY_RUN |-> {S_true, S_false}])
      [] OTHER ->
           OptDicts([BUCKET_NAME |-> {S_empty},
                     RETENTION_DAYS |-> {S_abc},
                     DRY_RUN |-> {S_false}])

EventChoices(h) ==
    CASE h \in {"a01", "a03", "Assignment-3"} -> {<< >>}
      [] h = "a04" ->
           OptDicts([volume_ids |-> {<<"a", ",", " ", "b">>},
                     retention_days |-> {S_0},
                     dry_run |-> {PyTrue}])
      [] h = "a02" ->
           OptDicts([bucket_name |-> {S_bucket},
                     retention_days |-> {S_0},
                     dry_run |-> {PyTrue}])
      [] OTHER ->
           OptDicts([bucket_name |-> {S_bucket},
                     retention_days |-> {S_0},
                     dry_run |-> {PyTrue}])

\* The bucket and the retention period are given by the environment or by the
\* event, not by both (DRY_RUN / dry_run may be given by both).
OneSource(e, ev) ==
    /\ ~("BUCKET_NAME" \in DOMAIN e /\ "bucket_name" \in DOMAIN ev)
    /\ ~("RETENTION_DAYS" \in DOMAIN e /\ "retention_days" \in DOMAIN ev)

NoCfg ==
    [bucket |-> None, retention_days |-> 0, dry_run |-> FALSE,
     volume_ids |-> <<>>, prefix |-> <<>>, sns_topic_arn |-> <<>>,
     public_check |-> FALSE]

NoResponse == [statusCode |-> 0, body |-> [kind |-> "none"]]

Init ==
    /\ handler \in Handlers
    /\ env \in EnvChoices(handler)
    /\ event \in EventChoices(handler)
    /\ OneSource(env, event)
    /\ tz \in (IF handler = "vijay" THEN TzOffsets ELSE {0})
    /\ pc = "start"
    /\ cfg = NoCfg
    /\ cutoff_date = 0
    /\ results = <<>>
    /\ cleanup_results = <<>>
    /\ todo = <<>>
    /\ page = <<>>
    /\ npages = 0
    /\ listed = <<>>
    /\ calls = <<>>
    /\ response = NoResponse
    /\ instances = <<>>
    /\ buckets = <<>>

\* --------------------------------------------------------- the provider
Call(op, key, outcome) == [op |-> op, key |-> key, outcome |-> outcome]

\* The S3 objects a page can hold once n records have been delivered: keys are
\* unique in a bucket, so an object's key is its place in the listing.
RECURSIVE ObjectPages(_, _)
ObjectPages(n, len) ==
    IF len = 0 THEN {<<>>}
    ELSE {<<[Key |-> n + 1, LastModified |-> t, Size |-> s]>> \o rest :
            t \in Timestamps, s \in Sizes, rest \in ObjectPages(n + 1, len - 1)}

\* json.dumps of a message string
TextBody == [kind |-> "text"]
\* json.dumps({'message' or 'error': ..., 'results': results})
ResultsBody(isError, res) == [kind |-> "results", error |-> isError, results |-> res]

Return(code, body) ==
    /\ response' = [statusCode |-> code, body |-> body]
    /\ pc' = "done"

\* An exception leaves lambda_handler: nothing is returned.
Raise == pc' = "raised" /\ UNCHANGED response

Outcomes == {"ok", "ClientError", "Exception"}

\* ====================================================================
\* a02: src/assignment_02_lambda_function.py
\* ====================================================================
BucketName_a02(e, ev) == Get(e, "BUCKET_NAME", Get(ev, "bucket_name", S_empty))
RetentionRaw(e, ev) == Get(e, "RETENTION_DAYS", Get(ev, "retention_days", S_30))
DryRun_a02(e, ev) == Lower(Get(e, "DRY_RUN", S_false)) = S_true

\* accumulators that would start with one object already counted
FreshResults_a02_Nonzero(c) ==
    [bucket_name |-> c.bucket, retention_days |-> c.retention_days,
     dry_run |-> c.dry_run, files_processed |-> 1, files_deleted |-> 0,
     total_size_deleted |-> 0, deleted_files |-> <<>>, errors |-> <<>>]

\* lines 39-48
FreshResults_a02(c) ==
    [bucket_name |-> c.bucket, retention_days |-> c.retention_days,
     dry_run |-> c.dry_run, files_processed |-> 0, files_deleted |-> 0,
     total_size_deleted |-> 0, deleted_files |-> <<>>, errors |-> <<>>]

\* lines 18-26: int() of a non-numeric retention raises before the bucket check
Configure_a02 ==
    /\ pc = "start" /\ handler = "a02"
    /\ IF ~IsIntLiteral(RetentionRaw(env, event))
       THEN Raise /\ UNCHANGED cfg
       ELSE /\ cfg' = [NoCfg EXCEPT !.bucket = BucketName_a02(env, event),
                                    !.retention_days = PyInt(RetentionRaw(env, event)),
                                    !.dry_run = DryRun_a02(env, event)]
            /\ IF ~Truthy(BucketName_a02(env, event))
               THEN Return(400, TextBody)
               ELSE pc' = "client" /\ UNCHANGED response
    /\ UNCHANGED <<handler, instances, buckets, env, event, tz, cutoff_date, results, cleanup_results,
                   todo, page, npages, listed, calls>>

\* lines 28-48
CreateClient_a02 ==
    /\ pc = "client" /\ handler = "a02"
    /\ \E o \in {"ok", "Exception"} :
         /\ calls' = Append(calls, Call("client", 0, o))
         /\ IF o = "ok"
            THEN /\ results' = FreshResults_a02(cfg)
                 /\ pc' = "head"
                 /\ UNCHANGED response
            ELSE Return(500, TextBody) /\ UNCHANGED results
    /\ UNCHANGED <<handler, instances, buckets, env, event, tz, cfg, cutoff_date, cleanup_results,
                   todo, page, npages, listed>>

\* line 66
Cutoff_a02(now, retention_days) == now - retention_days * 24 * 60 * 60

\* lines 50-72 and the handlers of lines 142-161
HeadBucket_a02 ==
    /\ pc = "head" /\ handler = "a02"
    /\ \E o \in {"ok", "404", "ClientError", "Exception"} :
         /\ calls' = Append(calls, Call("head_bucket", 0, o))
         /\ CASE o = "ok" ->
                   /\ cutoff_date' = Cutoff_a02(Now, cfg.retention_days)
                   /\ pc' = "list"
                   /\ UNCHANGED response
              [] o = "404" -> Return(404, TextBody) /\ UNCHANGED cutoff_date
              [] OTHER -> Return(500, ResultsBody(TRUE, results)) /\ UNCHANGED cutoff_date
    /\ UNCHANGED <<handler, instances, buckets, env, event, tz, cfg, results, cleanup_results, todo,
                   page, npages, listed>>

\* a comparison that would also expire the object dated exactly at the cutoff
Expired_a02_Inclusive(obj, cutoff) == obj.LastModified <= cutoff

\* line 85
Expired_a02(obj, cutoff) == obj.LastModified < cutoff

\* lines 85-100: whether delete_object is called for obj
CallsDelete_a02(obj, cutoff, dry_run) == Expired_a02(obj, cutoff) /\ ~dry_run

\* lines 86, 90-96, 105-111
Entry_a02(obj, now, action) ==
    [key |-> obj.Key, age_days |-> AgeTenths(now - obj.LastModified),
     size_bytes |-> obj.Size, last_modified |-> obj.LastModified, action |-> action]

\* a sweep that would not count the objects it examines
Counted_a02_Uncounted(res) == res

\* line 77
Counted_a02(res) == [res EXCEPT !.files_processed = @ + 1]

\* a dry run that would put the newest entry first
WouldDelete_a02_Prepends(res, obj, now) ==
    [res EXCEPT !.deleted_files = <<Entry_a02(obj, now, "would_delete")>> \o @]

\* lines 88-96
WouldDelete_a02(res, obj, now) ==
    [res EXCEPT !.deleted_files = Append(@, Entry_a02(obj, now, "would_delete"))]

\* lines 100-113
Deleted_a02(res, obj, now) ==
    [res EXCEPT !.files_deleted = @ + 1,
                !.total_size_deleted = @ + obj.Size,
                !.deleted_files = Append(@, Entry_a02(obj, now, "deleted"))]

\* a failure handler that would also list the object as deleted
DeleteFailed_a02_AsDeleted(res, obj) ==
    [res EXCEPT !.errors = Append(@, [key |-> obj.Key, error |-> "ClientError"]),
                !.files_deleted = @ + 1,
                !.total_size_deleted = @ + obj.Size,
                !.deleted_files = Append(@, Entry_a02(obj, Now, "deleted"))]

\* lines 115-118
DeleteFailed_a02(res, obj) ==
    [res EXCEPT !.errors = Append(@, [key |-> obj.Key, error |-> "ClientError"])]

\* lines 74-75: the paginator delivers the next page, with or without 'Contents'
NextPage_a02 ==
    /\ pc = "list" /\ handler = "a02"
    /\ npages < MaxPages
    /\ \E len \in 0 .. (MaxObjs - Len(listed)) :
         \E objs \in ObjectPages(Len(listed), len) :
            /\ page' = objs
            /\ listed' = listed \o objs
            /\ pc' = IF objs = <<>> THEN "list" ELSE "page"
    /\ npages' = npages + 1
    /\ calls' = Append(calls, Call("list_objects_v2", 0, "ok"))
    /\ UNCHANGED <<handler, instances, buckets, env, event, tz, cfg, cutoff_date, results,
                   cleanup_results, todo, response>>

\* lines 74 and 142-161: fetching the next page fails
ListFails_a02 ==
    /\ pc = "list" /\ handler = "a02"
    /\ \E o \in {"ClientError", "Exception"} :
         calls' = Append(calls, Call("list_objects_v2", 0, o))
    /\ Return(500, ResultsBody(TRUE, results))
    /\ UNCHANGED <<handler, instances, buckets, env, event, tz, cfg, cutoff_date, results,
                   cleanup_results, todo, page, npages, listed>>

\* lines 76-122: one object of the page
ProcessObject_a02 ==
    /\ pc = "page" /\ handler = "a02"
    /\ LET obj == Head(page)
           res == Counted_a02(results)
           next == IF Tail(page) = <<>> THEN "list" ELSE "page"
       IN  /\ page' = Tail(page)
           /\ IF CallsDelete_a02(obj, cutoff_date, cfg.dry_run)
              THEN \E o \in Outcomes :
                     /\ calls' = Append(calls, Call("delete_object", obj.Key, o))
                     /\ CASE o = "ok" ->
                               /\ results' = Deleted_a02(res, obj, Now)
                               /\ pc' = next
                               /\ UNCHANGED response
                          [] o = "ClientError" ->
                               /\ results' = DeleteFailed_a02(res, obj)
                               /\ pc' = next
                               /\ UNCHANGED response
                          [] OTHER ->
                               \* not a ClientError: caught at line 152
                               /\ results' = res
                               /\ Return(500, ResultsBody(TRUE, res))
              ELSE /\ results' = IF Expired_a02(obj, cutoff_date)
                                 THEN WouldDelete_a02(res, obj, Now)
                                 ELSE res
                   /\ pc' = next
                   /\ UNCHANGED <<calls, response>>
    /\ UNCHANGED <<handler, instances, buckets, env, event, tz, cfg, cutoff_date, cleanup_results,
                   todo, npages, listed>>

\* lines 74, 124-140: the paginator is exhausted
Finish_a02 ==
    /\ pc = "list" /\ handler = "a02"
    /\ Return(200, ResultsBody(FALSE, results))
    /\ UNCHANGED <<handler, instances, buckets, env, event, tz, cfg, cutoff_date, results,
                   cleanup_results, todo, page, npages, listed, calls>>

\* ---- the scenario of three objects aged 10, 40 and 60 days
ScenarioAgeDays == {10, 40, 60}
ScenarioTimestamps == {Now - d * SecondsPerDay : d \in ScenarioAgeDays}
ListedTimes(objs) == {objs[i].LastModified : i \in 1 .. Len(objs)}

\* The pages of len objects the bucket of the scenario can still deliver once
\* n objects were delivered and the objects dated in left remain.
RECURSIVE ScenarioPages(_, _, _)
ScenarioPages(n, left, len) ==
    IF len = 0 THEN {<<>>}
    ELSE UNION {{<<[Key |-> n + 1, LastModified |-> t, Size |-> sz]>> \o rest :
                    sz \in Sizes, rest \in ScenarioPages(n + 1, left \ {t}, len - 1)}
                : t \in left}

\* lines 74-75: the paginator delivers the next page of the scenario's bucket
NextPage_Scenario ==
    /\ pc = "list" /\ handler = "a02"
    /\ npages < MaxPages
    /\ LET left == ScenarioTimestamps \ ListedTimes(listed)
       IN  \E len \in 0 .. Cardinality(left) :
             \E objs \in ScenarioPages(Len(listed), left, len) :
                /\ page' = objs
                /\ listed' = listed \o objs
                /\ pc' = IF objs = <<>> THEN "list" ELSE "page"
    /\ npages' = npages + 1
    /\ calls' = Append(calls, Call("list_objects_v2", 0, "ok"))
    /\ UNCHANGED <<handler, instances, buckets, env, event, tz, cfg, cutoff_date,
                   results, cleanup_results, todo, response>>

\* a02 invoked with the bucket named in the event and nothing else configured
\* (retention 30 days, no dry run), on the scenario's bucket
Init_Scenario ==
    /\ Init
    /\ handler = "a02"
    /\ env = << >>
    /\ event = [bucket_name |-> S_bucket]

Next_Scenario ==
    \/ Configure_a02
    \/ CreateClient_a02
    \/ HeadBucket_a02
    \/ NextPage_Scenario
    \/ ListFails_a02
    \/ ProcessObject_a02
    \/ Finish_a02

Spec_Scenario == Init_Scenario /\ [][Next_Scenario]_vars

Next_a02 ==
    \/ Configure_a02
    \/ CreateClient_a02
    \/ HeadBucket_a02
    \/ NextPage_a02
    \/ ListFails_a02
    \/ ProcessObject_a02
    \/ Finish_a02

\* ====================================================================
\* vijay: src/vijay-s3-cleanup/lambda_function.py
\* ====================================================================
BucketName_vijay(e, ev) == Get(e, "BUCKET_NAME", Get(ev, "bucket_name", None))
\* a cleanup whose dry_run would default to false, as assignment_02's does
DryRun_vijay_DefaultFalse(e, ev) ==
    Lower(Get(e, "DRY_RUN", PyStr(Get(ev, "dry_run", PyFalse)))) = S_true

\* line 20
DryRun_vijay(e, ev) ==
    Lower(Get(e, "DRY_RUN", PyStr(Get(ev, "dry_run", PyTrue)))) = S_true

\* lines 18-29
Configure_vijay ==
    /\ pc = "start" /\ handler = "vijay"
    /\ IF ~IsIntLiteral(RetentionRaw(env, event))
       THEN Raise /\ UNCHANGED cfg
       ELSE /\ cfg' = [NoCfg EXCEPT !.bucket = BucketName_vijay(env, event),
                                    !.retention_days = PyInt(RetentionRaw(env, event)),
                                    !.dry_run = DryRun_vijay(env, event)]
            /\ IF ~Truthy(BucketName_vijay(env, event))
               THEN Return(400, TextBody)
               ELSE pc' = "client" /\ UNCHANGED response
    /\ UNCHANGED <<handler, instances, buckets, env, event, tz, cutoff_date, results, cleanup_results,
                   todo, page, npages, listed, calls>>

\* line 32: datetime.now() is the local wall clock, without a zone
Cutoff_vijay(now, offset, retention_days) ==
    (now + offset) - retention_days * SecondsPerDay

\* lines 34-36
FreshResults_vijay == [deleted_files |-> <<>>, total_size_deleted |-> 0, error_count |-> 0]

\* lines 31-36: the client is created outside any try
CreateClient_vijay ==
    /\ pc = "client" /\ handler = "vijay"
    /\ \E o \in {"ok", "Exception"} :
         /\ calls' = Append(calls, Call("client", 0, o))
         /\ IF o = "ok"
            THEN /\ cutoff_date' = Cutoff_vijay(Now, tz, cfg.retention_days)
                 /\ results' = FreshResults_vijay
                 /\ pc' = "list"
                 /\ UNCHANGED response
            ELSE Raise /\ UNCHANGED <<cutoff_date, results>>
    /\ UNCHANGED <<handler, instances, buckets, env, event, tz, cfg, cleanup_results, todo, page,
                   npages, listed>>

\* lines 49, 53: LastModified is UTC; replace(tzinfo=None) keeps its clock reading
Expired_vijay(obj, cutoff) == obj.LastModified < cutoff

\* lines 53-60: whether delete_object is called for obj
CallsDelete_vijay(obj, cutoff, dry_run) == Expired_vijay(obj, cutoff) /\ ~dry_run

\* lines 56-57 and 62-63
Recorded_vijay(res, obj) ==
    [res EXCEPT !.deleted_files = Append(@, obj.Key),
                !.total_size_deleted = @ + obj.Size]

\* lines 64-66
DeleteFailed_vijay(res, obj) == [res EXCEPT !.error_count = @ + 1]

\* lines 43-45
NextPage_vijay ==
    /\ pc = "list" /\ handler = "vijay"
    /\ npages < MaxPages
    /\ \E len \in 0 .. (MaxObjs - Len(listed)) :
         \E objs \in ObjectPages(Len(listed), len) :
            /\ page' = objs
            /\ listed' = listed \o objs
            /\ pc' = IF objs = <<>> THEN "list" ELSE "page"
    /\ npages' = npages + 1
    /\ calls' = Append(calls, Call("list_objects_v2", 0, "ok"))
    /\ UNCHANGED <<handler, instances, buckets, env, event, tz, cfg, cutoff_date, results,
                   cleanup_results, todo, response>>

\* lines 43 and 68-73: fetching the next page fails (the first fetch also with
\* NoSuchBucket, a ClientError); the body is the message only
ListFails_vijay ==
    /\ pc = "list" /\ handler = "vijay"
    /\ \E o \in {"NoSuchBucket", "ClientError", "Exception"} :
         /\ o = "NoSuchBucket" => npages = 0
         /\ calls' = Append(calls, Call("list_objects_v2", 0, o))
    /\ Return(500, TextBody)
    /\ UNCHANGED <<handler, instances, buckets, env, event, tz, cfg, cutoff_date, results,
                   cleanup_results, todo, page, npages, listed>>

\* lines 47-66: one object of the page
ProcessObject_vijay ==
    /\ pc = "page" /\ handler = "vijay"
    /\ LET obj == Head(page)
       IN  /\ page' = Tail(page)
           /\ pc' = IF Tail(page) = <<>> THEN "list" ELSE "page"
           /\ IF CallsDelete_vijay(obj, cutoff_date, cfg.dry_run)
              THEN \E o \in Outcomes :
                     /\ calls' = Append(calls, Call("delete_object", obj.Key, o))
                     /\ results' = IF o = "ok"
                                   THEN Recorded_vijay(results, obj)
                                   ELSE DeleteFailed_vijay(results, obj)
              ELSE /\ results' = IF Expired_vijay(obj, cutoff_date)
                                 THEN Recorded_vijay(results, obj)
                                 ELSE results
                   /\ UNCHANGED calls
    /\ UNCHANGED <<handler, instances, buckets, env, event, tz, cfg, cutoff_date, cleanup_results,
                   todo, npages, listed, response>>

\* lines 76-84
Result_vijay(c, res, cutoff) ==
    [bucket_name |-> c.bucket, retention_days |-> c.retention_days,
     dry_run |-> c.dry_run, files_processed |-> Len(res.deleted_files),
     total_size_mb |-> RoundMb(res.total_size_deleted),
     error_count |-> res.error_count, cutoff_date |-> cutoff]

\* lines 43, 75-91: the paginator is exhausted
Finish_vijay ==
    /\ pc = "list" /\ handler = "vijay"
    /\ Return(200, [kind |-> "result", result |-> Result_vijay(cfg, results, cutoff_date)])
    /\ UNCHANGED <<handler, instances, buckets, env, event, tz, cfg, cutoff_date, results,
                   cleanup_results, todo, page, npages, listed, calls>>

Next_vijay ==
    \/ Configure_vijay
    \/ CreateClient_vijay
    \/ NextPage_vijay
    \/ ListFails_vijay
    \/ ProcessObject_vijay
    \/ Finish_vijay

\* ====================================================================
\* a04: src/assignment_04_lambda_function.py
\* ====================================================================
\* line 26: the pieces that are not blank, stripped
RECURSIVE NonEmptyStripped(_)
NonEmptyStripped(pieces) ==
    IF pieces = <<>> THEN <<>>
    ELSE IF Strip(Head(pieces)) # <<>>
         THEN <<Strip(Head(pieces))>> \o NonEmptyStripped(Tail(pieces))
         ELSE NonEmptyStripped(Tail(pieces))

\* lines 19 and 26
VolumeIds_a04(e, ev) ==
    NonEmptyStripped(Split(Get(e, "VOLUME_IDS", Get(ev, "volume_ids", S_empty))))
Prefix_a04(e) == Get(e, "SNAPSHOT_DESCRIPTION_PREFIX", S_AutoSnapshot)
DryRun_a04(e, ev) == Lower(Get(e, "DRY_RUN", S_false)) = S_true
SnsTopicArn_a04(e) == Get(e, "SNS_TOPIC_ARN", S_empty)

\* lines 19-32
Configure_a04 ==
    /\ pc = "start" /\ handler = "a04"
    /\ IF ~IsIntLiteral(RetentionRaw(env, event))
       THEN Raise /\ UNCHANGED cfg
       ELSE /\ cfg' = [NoCfg EXCEPT !.volume_ids = VolumeIds_a04(env, event),
                                    !.retention_days = PyInt(RetentionRaw(env, event)),
                                    !.prefix = Prefix_a04(env),
                                    !.dry_run = DryRun_a04(env, event),
                                    !.sns_topic_arn = SnsTopicArn_a04(env)]
            /\ IF VolumeIds_a04(env, event) = <<>>
               THEN Return(400, TextBody)
               ELSE pc' = "client" /\ UNCHANGED response
    /\ UNCHANGED <<handler, instances, buckets, env, event, tz, cutoff_date, results, cleanup_results,
                   todo, page, npages, listed, calls>>

\* lines 51-60
FreshResults_a04(c) ==
    [volume_ids_requested |-> c.volume_ids, retention_days |-> c.retention_days,
     dry_run |-> c.dry_run, snapshots_created |-> <<>>, snapshots_deleted |-> <<>>,
     volumes_processed |-> 0, total_snapshots_cleaned |-> 0, errors |-> <<>>]

\* lines 34-60: the EC2 client and, with a topic configured, the SNS client
CreateClients_a04 ==
    /\ pc = "client" /\ handler = "a04"
    /\ \E o \in {"ok", "Exception"} :
         /\ calls' = Append(calls, Call("client", 0, o))
         /\ IF o = "ok"
            THEN /\ results' = FreshResults_a04(cfg)
                 /\ todo' = cfg.volume_ids
                 /\ pc' = "volumes"
                 /\ UNCHANGED response
            ELSE Return(500, TextBody) /\ UNCHANGED <<results, todo>>
    /\ UNCHANGED <<handler, instances, buckets, env, event, tz, cfg, cutoff_date, cleanup_results,
                   page, npages, listed>>

\* lines 68-70
SnapshotTaken_a04(res, volume_id, snapshot_id, action) ==
    [res EXCEPT !.snapshots_created =
                    Append(@, [volume_id |-> volume_id, snapshot_id |-> snapshot_id,
                               action |-> action]),
                !.volumes_processed = @ + 1]

\* a handler that would count a failed volume as processed
SnapshotFailed_a04_Counted(res, volume_id, why) ==
    [res EXCEPT !.errors = Append(@, [key |-> volume_id, error |-> why]),
                !.volumes_processed = @ + 1]

\* lines 71-74
SnapshotFailed_a04(res, volume_id, why) ==
    [res EXCEPT !.errors = Append(@, [key |-> volume_id, error |-> why])]

\* lines 65-74 and create_volume_snapshot, lines 121-213: one requested volume.
\* dv is what describe_volumes answers ("empty": no such volume in the answer),
\* cs what create_snapshot answers, ct what create_tags answers.
CreateVolumeSnapshot_a04 ==
    /\ pc = "volumes" /\ handler = "a04" /\ todo # <<>>
    /\ LET volume_id == Head(todo)
           snapshot_id == Len(results.snapshots_created) + 1
       IN  \E dv \in {"ok", "empty", "NotFound", "ClientError"} :
             IF dv # "ok"
             THEN /\ calls' = Append(calls, Call("describe_volumes", volume_id, dv))
                  /\ results' = SnapshotFailed_a04(results, volume_id, dv)
             ELSE IF cfg.dry_run
             THEN /\ calls' = Append(calls, Call("describe_volumes", volume_id, dv))
                  /\ results' = SnapshotTaken_a04(results, volume_id, 0, "would_create")
             ELSE \E cs \in {"ok", "ClientError"} :
                    IF cs # "ok"
                    THEN /\ calls' = calls \o
                              <<Call("describe_volumes", volume_id, dv),
                                Call("create_snapshot", volume_id, cs)>>
                         /\ results' = SnapshotFailed_a04(results, volume_id, cs)
                    ELSE \E ct \in {"ok", "Exception"} :
                           /\ calls' = calls \o
                                <<Call("describe_volumes", volume_id, dv),
                                  Call("create_snapshot", volume_id, cs),
                                  Call("create_tags", snapshot_id, ct)>>
                           /\ results' = SnapshotTaken_a04(results, volume_id,
                                                           snapshot_id, "created")
    /\ todo' = Tail(todo)
    /\ UNCHANGED <<handler, instances, buckets, env, event, tz, pc, cfg, cutoff_date, cleanup_results,
                   page, npages, listed, response>>

\* a cleanup whose cutoff would lie one day later
Cutoff_a04_DayLate(now, retention_days) == now - (retention_days - 1) * SecondsPerDay

\* line 226
Cutoff_a04(now, retention_days) == now - retention_days * SecondsPerDay

\* The snapshots describe_snapshots can answer with: ids are unique, and a
\* snapshot may carry no Description.
Descriptions == {S_AutoSnapshot \o <<"-", "a">>, <<"m", "y">>}

RECURSIVE SnapshotLists(_, _)
SnapshotLists(n, len) ==
    IF len = 0 THEN {<<>>}
    ELSE {<<snap>> \o rest :
            snap \in {[SnapshotId |-> n + 1, StartTime |-> t] : t \in StartTimes}
                     \cup {[SnapshotId |-> n + 1, StartTime |-> t, Description |-> d] :
                             t \in StartTimes, d \in Descriptions},
            rest \in SnapshotLists(n + 1, len - 1)}

\* lines 219-229: the one describe_snapshots call of cleanup_old_snapshots.
\* The answer shows older snapshots only (their ids are not those of the
\* snapshots this invocation created).
DescribeSnapshots_a04 ==
    /\ pc = "volumes" /\ handler = "a04" /\ todo = <<>>
    /\ cutoff_date' = Cutoff_a04(Now, cfg.retention_days)
    /\ cleanup_results' = [deleted_snapshots |-> <<>>, errors |-> <<>>]
    /\ \E len \in 0 .. MaxObjs :
         \E snaps \in SnapshotLists(Len(results.snapshots_created), len) :
            /\ page' = snaps
            /\ listed' = snaps
    /\ npages' = npages + 1
    /\ calls' = Append(calls, Call("describe_snapshots", 0, "ok"))
    /\ pc' = "cleanup"
    /\ UNCHANGED <<handler, instances, buckets, env, event, tz, cfg, results, todo, response>>

\* lines 229 and 287-292: describe_snapshots fails; cleanup_old_snapshots
\* records the error and returns
DescribeFails_a04 ==
    /\ pc = "volumes" /\ handler = "a04" /\ todo = <<>>
    /\ cutoff_date' = Cutoff_a04(Now, cfg.retention_days)
    /\ \E o \in {"ClientError", "Exception"} :
         /\ calls' = Append(calls, Call("describe_snapshots", 0, o))
         /\ cleanup_results' = [deleted_snapshots |-> <<>>,
                                errors |-> <<[key |-> 0, error |-> o]>>]
    /\ pc' = "cleanup"
    /\ UNCHANGED <<handler, instances, buckets, env, event, tz, cfg, results, todo, page, npages,
                   listed, response>>

\* a cleanup that would take every old snapshot, whatever its description
Expired_a04_AnyDescription(snapshot, cutoff, prefix) == snapshot.StartTime < cutoff

\* lines 233-240
Expired_a04(snapshot, cutoff, prefix) ==
    /\ StartsWith(Get(snapshot, "Description", S_empty), prefix)
    /\ snapshot.StartTime < cutoff

\* a cleanup that would call delete_snapshot whatever dry_run says
CallsDelete_a04_IgnoresDryRun(snapshot, cutoff, prefix, dry_run) ==
    Expired_a04(snapshot, cutoff, prefix)

\* lines 239-258: whether delete_snapshot is called for snapshot
CallsDelete_a04(snapshot, cutoff, prefix, dry_run) ==
    Expired_a04(snapshot, cutoff, prefix) /\ ~dry_run

\* lines 242, 247-255, 262-270; (now - start_time).days is whole days
Entry_a04(snapshot, now, action) ==
    [snapshot_id |-> snapshot.SnapshotId,
     description |-> Get(snapshot, "Description", S_empty),
     start_time |-> snapshot.StartTime,
     age_days |-> (now - snapshot.StartTime) \div SecondsPerDay,
     action |-> action]

Reported_a04(cres, snapshot, now, action) ==
    [cres EXCEPT !.deleted_snapshots = Append(@, Entry_a04(snapshot, now, action))]

\* lines 272-285
DeleteFailed_a04(cres, snapshot, why) ==
    [cres EXCEPT !.errors = Append(@, [key |-> snapshot.SnapshotId, error |-> why])]

\* lines 231-285: one snapshot of the answer
ProcessSnapshot_a04 ==
    /\ pc = "cleanup" /\ handler = "a04" /\ page # <<>>
    /\ LET snapshot == Head(page)
       IN  /\ page' = Tail(page)
           /\ IF CallsDelete_a04(snapshot, cutoff_date, cfg.prefix, cfg.dry_run)
              THEN \E o \in Outcomes :
                     /\ calls' = Append(calls, Call("delete_snapshot", snapshot.SnapshotId, o))
                     /\ cleanup_results' =
                          IF o = "ok"
                          THEN Reported_a04(cleanup_results, snapshot, Now, "deleted")
                          ELSE DeleteFailed_a04(cleanup_results, snapshot, o)
              ELSE /\ cleanup_results' =
                          IF Expired_a04(snapshot, cutoff_date, cfg.prefix)
                          THEN Reported_a04(cleanup_results, snapshot, Now, "would_delete")
                          ELSE cleanup_results
                   /\ UNCHANGED calls
    /\ UNCHANGED <<handler, instances, buckets, env, event, tz, pc, cfg, cutoff_date, results, todo,
                   npages, listed, response>>

\* lines 79-81
Collected_a04(res, cres) ==
    [res EXCEPT !.snapshots_deleted = cres.deleted_snapshots,
                !.total_snapshots_cleaned = Len(cres.deleted_snapshots),
                !.errors = @ \o cres.errors]

\* lines 88-89
Publishes_a04(c) == Truthy(c.sns_topic_arn)

\* lines 78-98 and send_sns_notification, lines 327-351: the cleanup returned;
\* a failure to publish is logged and nothing else
Finish_a04 ==
    /\ pc = "cleanup" /\ handler = "a04" /\ page = <<>>
    /\ results' = Collected_a04(results, cleanup_results)
    /\ IF Publishes_a04(cfg)
       THEN \E o \in {"ok", "Exception"} : calls' = Append(calls, Call("publish", 0, o))
       ELSE UNCHANGED calls
    /\ Return(200, ResultsBody(FALSE, results'))
    /\ UNCHANGED <<handler, instances, buckets, env, event, tz, cfg, cutoff_date, cleanup_results,
                   todo, page, npages, listed>>

\* ---- the invocations whose new snapshots the cleanup listing shows
\* Seconds between the start of a snapshot and the cleanup's reading of the
\* clock: an invocation lasts 900 seconds at most.
ElapsedSeconds == {0, 60}

\* line 151: strftime('%Y-%m-%d_%H-%M-%S') of the UTC time t seconds after
\* the epoch, t >= 0: the day count is turned into a date of the Gregorian
\* calendar by counting from 1 March of year 0 in eras of 400 years.
Timestamp(t) ==
    LET Digit(d) == <<"0", "1", "2", "3", "4", "5", "6", "7", "8", "9">>[d + 1]
        Two(n) == <<Digit(n \div 10), Digit(n % 10)>>
        Four(n) == Two(n \div 100) \o Two(n % 100)
        z == t \div SecondsPerDay + 719468
        era == z \div 146097
        doe == z % 146097
        yoe == (doe - doe \div 1460 + doe \div 36524 - doe \div 146096) \div 365
        doy == doe - (365 * yoe + yoe \div 4 - yoe \div 100)
        mp == (5 * doy + 2) \div 153
        day == doy - (153 * mp + 2) \div 5 + 1
        month == IF mp < 10 THEN mp + 3 ELSE mp - 9
        year == yoe + era * 400 + (IF month <= 2 THEN 1 ELSE 0)
        secs == t % SecondsPerDay
    IN  Four(year) \o <<"-">> \o Two(month) \o <<"-">> \o Two(day) \o <<"_">>
            \o Two(secs \div 3600) \o <<"-">> \o Two((secs % 3600) \div 60)
            \o <<"-">> \o Two(secs % 60)

\* lines 151-152: the prefix, the volume id and the text of the clock reading
\* now, taken before create_snapshot is called, joined by "-"
Description_a04(prefix, volume_id, now) ==
    prefix \o <<"-">> \o volume_id \o <<"-">> \o Timestamp(now)

\* The snapshots of this invocation as describe_snapshots answers them:
\* elapsed[i] seconds old at the cleanup's clock reading (line 226), and
\* described with the time of their creation (line 151).
CreatedSnapshots(res, prefix, elapsed) ==
    LET created == SelectSeq(res.snapshots_created, LAMBDA e : e.action = "created")
    IN  [i \in 1 .. Len(created) |->
            [SnapshotId |-> created[i].snapshot_id,
             StartTime |-> Now - elapsed[i],
             Description |-> Description_a04(prefix, created[i].volume_id,
                                             Now - elapsed[i])]]

NumCreated(res) ==
    Len(SelectSeq(res.snapshots_created, LAMBDA e : e.action = "created"))

\* lines 219-229: describe_snapshots answers with the snapshots this
\* invocation created and with older ones
DescribeSnapshots_Visible ==
    /\ pc = "volumes" /\ handler = "a04" /\ todo = <<>>
    /\ cutoff_date' = Cutoff_a04(Now, cfg.retention_days)
    /\ cleanup_results' = [deleted_snapshots |-> <<>>, errors |-> <<>>]
    /\ \E elapsed \in [1 .. NumCreated(results) -> ElapsedSeconds] :
         \E len \in 0 .. (MaxObjs - NumCreated(results)) :
           \E old \in SnapshotLists(Len(results.snapshots_created), len) :
              /\ page' = CreatedSnapshots(results, cfg.prefix, elapsed) \o old
              /\ listed' = CreatedSnapshots(results, cfg.prefix, elapsed) \o old
    /\ npages' = npages + 1
    /\ calls' = Append(calls, Call("describe_snapshots", 0, "ok"))
    /\ pc' = "cleanup"
    /\ UNCHANGED <<handler, instances, buckets, env, event, tz, cfg, results, todo, response>>

Init_Visible ==
    /\ handler = "a04"
    /\ env \in OptDicts([DRY_RUN |-> {S_true, S_false},
                         SNAPSHOT_DESCRIPTION_PREFIX |-> {<<"m", "y">>}])
    /\ event \in OptDicts([volume_ids |-> {<<"a">>, <<"a", ",", " ", "b">>},
                           retention_days |-> {S_0, S_1}])
    /\ tz = 0
    /\ pc = "start"
    /\ cfg = NoCfg
    /\ cutoff_date = 0
    /\ results = <<>>
    /\ cleanup_results = <<>>
    /\ todo = <<>>
    /\ page = <<>>
    /\ npages = 0
    /\ listed = <<>>
    /\ calls = <<>>
    /\ response = NoResponse
    /\ instances = <<>>
    /\ buckets = <<>>

Next_Visible ==
    \/ Configure_a04
    \/ CreateClients_a04
    \/ CreateVolumeSnapshot_a04
    \/ DescribeSnapshots_Visible
    \/ DescribeFails_a04
    \/ ProcessSnapshot_a04
    \/ Finish_a04

Spec_Visible == Init_Visible /\ [][Next_Visible]_vars

Next_a04 ==
    \/ Configure_a04
    \/ CreateClients_a04
    \/ CreateVolumeSnapshot_a04
    \/ DescribeSnapshots_a04
    \/ DescribeFails_a04
    \/ ProcessSnapshot_a04
    \/ Finish_a04

\* ====================================================================
\* a01: src/assignment_01_lambda_function.py
\* ====================================================================
\* lines 36-47: the states the filter of describe_instances lets through
InstanceStates == {"running", "stopped", "stopping", "pending"}

\* The tag lists of an instance that carries an Action tag (the filter of
\* lines 39-40), alone or after another tag.
TagLists ==
    {<<[Key |-> "Action", Value |-> v]>> : v \in {"Auto-Stop", "Auto-Start"}}
    \cup {<<[Key |-> "Name", Value |-> "Auto-Stop"], [Key |-> "Action", Value |-> "Auto-Start"]>>}

\* The instances one reservation can hold once n instances were answered.
RECURSIVE InstanceLists(_, _)
InstanceLists(n, len) ==
    IF len = 0 THEN {<<>>}
    ELSE {<<[InstanceId |-> n + 1, State |-> st, Tags |-> tags]>> \o rest :
            st \in InstanceStates, tags \in TagLists,
            rest \in InstanceLists(n + 1, len - 1)}

\* The reservations describe_instances can answer with: up to max instances,
\* in reservations of one instance or more.
RECURSIVE Reservations(_, _)
Reservations(n, max) ==
    {<<>>} \cup
    UNION {{<<insts>> \o rest : insts \in InstanceLists(n, len),
                                rest \in Reservations(n + len, max - len)}
           : len \in 1 .. max}

\* lines 59-63: the value of the first tag whose key is 'Action', else None
RECURSIVE ActionTag(_)
ActionTag(tags) ==
    IF tags = <<>> THEN None
    ELSE IF Head(tags).Key = "Action" THEN Head(tags).Value
    ELSE ActionTag(Tail(tags))

\* line 65
ShouldStop(instance) ==
    ActionTag(Get(instance, "Tags", <<>>)) = "Auto-Stop" /\ instance.State = "running"

\* line 67
ShouldStart(instance) ==
    /\ ~ShouldStop(instance)
    /\ ActionTag(Get(instance, "Tags", <<>>)) = "Auto-Start"
    /\ instance.State = "stopped"

\* lines 53-54: the instances of all reservations, in order
RECURSIVE Flatten(_)
Flatten(reservations) ==
    IF reservations = <<>> THEN <<>>
    ELSE Head(reservations) \o Flatten(Tail(reservations))

InstanceIds(insts) == [i \in 1 .. Len(insts) |-> insts[i].InstanceId]

\* lines 49-68
InstancesToStop(reservations) == InstanceIds(SelectSeq(Flatten(reservations), ShouldStop))
InstancesToStart(reservations) == InstanceIds(SelectSeq(Flatten(reservations), ShouldStart))

\* a handler that would call the provider again after a failure
Attempt_Retried(op, key, outcome) ==
    IF outcome = "ok" THEN <<Call(op, key, outcome)>>
    ELSE <<Call(op, key, outcome), Call(op, key, outcome)>>

\* lines 75 and 92: the calls one stop or start step makes
Attempt(op, key, outcome) == <<Call(op, key, outcome)>>

\* lines 28-32
FreshResults_a01 == [stopped_instances |-> <<>>, started_instances |-> <<>>, errors |-> <<>>]

\* lines 17-32
CreateClient_a01 ==
    /\ pc = "start" /\ handler = "a01"
    /\ \E o \in {"ok", "Exception"} :
         /\ calls' = Append(calls, Call("client", 0, o))
         /\ IF o = "ok"
            THEN /\ results' = FreshResults_a01
                 /\ pc' = "describe"
                 /\ UNCHANGED response
            ELSE Return(500, TextBody) /\ UNCHANGED results
    /\ UNCHANGED <<handler, instances, buckets, env, event, tz, cfg, cutoff_date,
                   cleanup_results, todo, page, npages, listed>>

\* lines 34-70 and the handlers of lines 119-138
DescribeInstances_a01 ==
    /\ pc = "describe" /\ handler = "a01"
    /\ \E o \in Outcomes :
         /\ calls' = Append(calls, Call("describe_instances", 0, o))
         /\ IF o = "ok"
            THEN /\ instances' \in Reservations(0, MaxInstances)
                 /\ pc' = "stop"
                 /\ UNCHANGED response
            ELSE /\ Return(500, ResultsBody(TRUE, results))
                 /\ UNCHANGED instances
    /\ UNCHANGED <<handler, buckets, env, event, tz, cfg, cutoff_date, results,
                   cleanup_results, todo, page, npages, listed>>

\* lines 76-82 and 93-99: one entry per instance of the provider's answer
ChangedEntries(ids, state) ==
    [i \in 1 .. Len(ids) |-> [instance_id |-> ids[i], current_state |-> state]]

\* lines 72-87: the stop step; a failure that is no ClientError is caught at
\* line 129
StopInstances_a01 ==
    /\ pc = "stop" /\ handler = "a01"
    /\ LET ids == InstancesToStop(instances)
       IN  IF ids = <<>>
           THEN pc' = "power_on" /\ UNCHANGED <<calls, results, response>>
           ELSE \E o \in Outcomes :
                  /\ calls' = calls \o Attempt("stop_instances", ids, o)
                  /\ CASE o = "ok" ->
                            /\ results' = [results EXCEPT !.stopped_instances =
                                              @ \o ChangedEntries(ids, "stopping")]
                            /\ pc' = "power_on"
                            /\ UNCHANGED response
                       [] o = "ClientError" ->
                            /\ results' = [results EXCEPT !.errors =
                                              Append(@, [key |-> ids, error |-> o])]
                            /\ pc' = "power_on"
                            /\ UNCHANGED response
                       [] OTHER ->
                            /\ Return(500, ResultsBody(TRUE, results))
                            /\ UNCHANGED results
    /\ UNCHANGED <<handler, instances, buckets, env, event, tz, cfg, cutoff_date,
                   cleanup_results, todo, page, npages, listed>>

\* lines 89-104: the start step
StartInstances_a01 ==
    /\ pc = "power_on" /\ handler = "a01"
    /\ LET ids == InstancesToStart(instances)
       IN  IF ids = <<>>
           THEN pc' = "finish" /\ UNCHANGED <<calls, results, response>>
           ELSE \E o \in Outcomes :
                  /\ calls' = calls \o Attempt("start_instances", ids, o)
                  /\ CASE o = "ok" ->
                            /\ results' = [results EXCEPT !.started_instances =
                                              @ \o ChangedEntries(ids, "pending")]
                            /\ pc' = "finish"
                            /\ UNCHANGED response
                       [] o = "ClientError" ->
                            /\ results' = [results EXCEPT !.errors =
                                              Append(@, [key |-> ids, error |-> o])]
                            /\ pc' = "finish"
                            /\ UNCHANGED response
                       [] OTHER ->
                            /\ Return(500, ResultsBody(TRUE, results))
                            /\ UNCHANGED results
    /\ UNCHANGED <<handler, instances, buckets, env, event, tz, cfg, cutoff_date,
                   cleanup_results, todo, page, npages, listed>>

\* lines 106-117
Finish_a01 ==
    /\ pc = "finish" /\ handler = "a01"
    /\ Return(200, ResultsBody(FALSE, results))
    /\ UNCHANGED <<handler, instances, buckets, env, event, tz, cfg, cutoff_date,
                   results, cleanup_results, todo, page, npages, listed, calls>>

Next_a01 ==
    \/ CreateClient_a01
    \/ DescribeInstances_a01
    \/ StopInstances_a01
    \/ StartInstances_a01
    \/ Finish_a01

\* ====================================================================
\* a03: src/assignment_03_lambda_function.py
\* ====================================================================
\* lines 18-19
SnsTopicArn_a03(e) == Get(e, "SNS_TOPIC_ARN", S_empty)
IncludePublicReadCheck_a03(e) == Lower(Get(e, "INCLUDE_PUBLIC_READ_CHECK", S_true)) = S_true

\* lines 44-52
FreshResults_a03 ==
    [total_buckets |-> 0, encrypted_buckets |-> 0, unencrypted_buckets |-> 0,
     inaccessible_buckets |-> 0, unencrypted_bucket_details |-> <<>>,
     public_buckets |-> <<>>, errors |-> <<>>]

\* lines 18-52: the S3 client and, with a topic configured, the SNS client
CreateClients_a03 ==
    /\ pc = "start" /\ handler = "a03"
    /\ cfg' = [NoCfg EXCEPT !.sns_topic_arn = SnsTopicArn_a03(env),
                            !.public_check = IncludePublicReadCheck_a03(env)]
    /\ \E o \in {"ok", "Exception"} :
         /\ calls' = Append(calls, Call("client", 0, o))
         /\ IF o = "ok"
            THEN /\ results' = FreshResults_a03
                 /\ pc' = "buckets"
                 /\ UNCHANGED response
            ELSE Return(500, TextBody) /\ UNCHANGED results
    /\ UNCHANGED <<handler, instances, buckets, env, event, tz, cutoff_date,
                   cleanup_results, todo, page, npages, listed>>

\* The buckets list_buckets can answer with: names are unique.
BucketLists(len) == [i \in 1 .. len |-> [Name |-> i]]

\* lines 54-60 and the handlers of lines 140-159
ListBuckets_a03 ==
    /\ pc = "buckets" /\ handler = "a03"
    /\ \E o \in Outcomes :
         /\ calls' = Append(calls, Call("list_buckets", 0, o))
         /\ IF o = "ok"
            THEN /\ \E len \in 0 .. MaxBuckets :
                      /\ buckets' = BucketLists(len)
                      /\ todo' = BucketLists(len)
                      /\ results' = [results EXCEPT !.total_buckets = len]
                 /\ pc' = "analyze"
                 /\ UNCHANGED response
            ELSE /\ Return(500, ResultsBody(TRUE, results))
                 /\ UNCHANGED <<buckets, todo, results>>
    /\ UNCHANGED <<handler, instances, env, event, tz, cfg, cutoff_date,
                   cleanup_results, page, npages, listed>>

\* check_bucket_encryption, lines 161-200: the status it returns for what
\* get_bucket_encryption answered or raised (a ClientError)
EncryptionStatus(answer) ==
    CASE answer = "encrypted" -> "encrypted"
      [] answer = "ServerSideEncryptionConfigurationNotFoundError" -> "unencrypted"
      [] OTHER -> "error"

\* The grants get_bucket_acl answers with, or the ClientError it raises:
\* none to AllUsers ("private"), READ ("public"), WRITE ("write") or
\* FULL_CONTROL ("full") to AllUsers.  Lines 228-238: READ and FULL_CONTROL
\* make public_read_access true, WRITE and FULL_CONTROL public_write_access.
AclAnswers == {"private", "public", "write", "full", "ClientError"}

\* What get_public_access_block does: it answers, or raises an exception that
\* is no ClientError.  (A ClientError it raises is logged at lines 217-219 and
\* the check goes on as after an answer; it is not drawn.)
PublicAccessBlockAnswers == {"ok", "Exception"}

\* lines 68-76, 88 and 101
BucketDetails(bucket, status, read, write) ==
    [name |-> bucket.Name, encryption_status |-> status,
     public_read_access |-> read, public_write_access |-> write]

\* lines 90-96
Counted_a03(res, details) ==
    IF details.encryption_status = "encrypted"
    THEN [res EXCEPT !.encrypted_buckets = @ + 1]
    ELSE [res EXCEPT !.unencrypted_buckets = @ + 1,
                     !.unencrypted_bucket_details = Append(@, details)]

\* lines 103-105
PublicListed_a03(res, details) ==
    IF details.public_read_access \/ details.public_write_access
    THEN [res EXCEPT !.public_buckets = Append(@, details)]
    ELSE res

\* lines 118-121
AnalysisFailed_a03(res, bucket) ==
    [res EXCEPT !.errors = Append(@, [key |-> bucket.Name, error |-> "Exception"])]

\* What get_bucket_encryption answers or raises.
EncryptionAnswers ==
    {"encrypted", "ServerSideEncryptionConfigurationNotFoundError", "AccessDenied",
     "Exception"}

\* lines 62-121 with check_bucket_encryption (161-200) and
\* check_bucket_public_access (202-246): one bucket.  loc is what
\* get_bucket_location answers, enc what get_bucket_encryption answers, pab what
\* get_public_access_block answers and acl what get_bucket_acl answers.
\* check_bucket_public_access lets no exception out: an exception of
\* get_public_access_block that is no ClientError is caught at line 243 and
\* the ACL is never read; the answer of get_public_access_block is only stored.
AnalyzeBucket_a03 ==
    /\ pc = "analyze" /\ handler = "a03" /\ todo # <<>>
    /\ LET bucket == Head(todo)
           name == bucket.Name
       IN  \E loc \in Outcomes :
             IF loc = "Exception"
             THEN /\ calls' = Append(calls, Call("get_bucket_location", name, loc))
                  /\ results' = AnalysisFailed_a03(results, bucket)
             ELSE \E enc \in EncryptionAnswers :
                    IF enc = "Exception"
                    THEN /\ calls' = calls \o
                              <<Call("get_bucket_location", name, loc),
                                Call("get_bucket_encryption", name, enc)>>
                         /\ results' = AnalysisFailed_a03(results, bucket)
                    ELSE IF ~cfg.public_check
                    THEN /\ calls' = calls \o
                              <<Call("get_bucket_location", name, loc),
                                Call("get_bucket_encryption", name, enc)>>
                         /\ results' = Counted_a03(results,
                                BucketDetails(bucket, EncryptionStatus(enc), FALSE, FALSE))
                    ELSE \E pab \in PublicAccessBlockAnswers :
                           IF pab = "Exception"
                           THEN /\ calls' = calls \o
                                     <<Call("get_bucket_location", name, loc),
                                       Call("get_bucket_encryption", name, enc),
                                       Call("get_public_access_block", name, pab)>>
                                /\ results' = Counted_a03(results,
                                       BucketDetails(bucket, EncryptionStatus(enc),
                                                     FALSE, FALSE))
                           ELSE \E acl \in AclAnswers :
                                  LET details ==
                                        BucketDetails(bucket, EncryptionStatus(enc),
                                                      acl \in {"public", "full"},
                                                      acl \in {"write", "full"})
                                  IN  /\ calls' = calls \o
                                           <<Call("get_bucket_location", name, loc),
                                             Call("get_bucket_encryption", name, enc),
                                             Call("get_public_access_block", name, pab),
                                             Call("get_bucket_acl", name, acl)>>
                                      /\ results' =
                                           PublicListed_a03(Counted_a03(results, details),
                                                            details)
    /\ todo' = Tail(todo)
    /\ UNCHANGED <<handler, instances, buckets, env, event, tz, pc, cfg, cutoff_date,
                   cleanup_results, page, npages, listed, response>>

\* a handler that would notify whenever a topic is configured
Publishes_a03_Always(c, res) == Truthy(c.sns_topic_arn)

\* line 128
Publishes_a03(c, res) == Truthy(c.sns_topic_arn) /\ res.unencrypted_buckets > 0

\* lines 123-138 and send_sns_notification, lines 281-302: every bucket was
\* analysed; a failure to publish is logged and nothing else
Finish_a03 ==
    /\ pc = "analyze" /\ handler = "a03" /\ todo = <<>>
    /\ IF Publishes_a03(cfg, results)
       THEN \E o \in {"ok", "Exception"} : calls' = Append(calls, Call("publish", 0, o))
       ELSE UNCHANGED calls
    /\ Return(200, ResultsBody(FALSE, results))
    /\ UNCHANGED <<handler, instances, buckets, env, event, tz, cfg, cutoff_date,
                   results, cleanup_results, todo, page, npages, listed>>

Next_a03 ==
    \/ CreateClients_a03
    \/ ListBuckets_a03
    \/ AnalyzeBucket_a03
    \/ Finish_a03

\* ====================================================================
\* Assignment-3: src/Assignment-3/lambda_function.py
\* ====================================================================
\* line 14: the list of the names of the unencrypted buckets
FreshResults_Assignment3 == [unencrypted_buckets |-> <<>>]

\* lines 12-14: the client is created outside any try
CreateClient_Assignment3 ==
    /\ pc = "start" /\ handler = "Assignment-3"
    /\ \E o \in {"ok", "Exception"} :
         /\ calls' = Append(calls, Call("client", 0, o))
         /\ IF o = "ok"
            THEN /\ results' = FreshResults_Assignment3
                 /\ pc' = "buckets"
                 /\ UNCHANGED response
            ELSE Raise /\ UNCHANGED results
    /\ UNCHANGED <<handler, instances, buckets, env, event, tz, cfg, cutoff_date,
                   cleanup_results, todo, page, npages, listed>>

\* lines 16-21 and the handler of lines 42-47
ListBuckets_Assignment3 ==
    /\ pc = "buckets" /\ handler = "Assignment-3"
    /\ \E o \in Outcomes :
         /\ calls' = Append(calls, Call("list_buckets", 0, o))
         /\ IF o = "ok"
            THEN /\ \E len \in 0 .. MaxBuckets :
                      /\ buckets' = BucketLists(len)
                      /\ todo' = BucketLists(len)
                 /\ pc' = "check"
                 /\ UNCHANGED response
            ELSE /\ Return(500, TextBody)
                 /\ UNCHANGED <<buckets, todo>>
    /\ UNCHANGED <<handler, instances, env, event, tz, cfg, cutoff_date, results,
                   cleanup_results, page, npages, listed>>

\* lines 32-40: what the ClientError handler does with the error code
Unencrypted_Assignment3(res, bucket, answer) ==
    IF answer = "ServerSideEncryptionConfigurationNotFoundError"
    THEN [res EXCEPT !.unencrypted_buckets = Append(@, bucket.Name)]
    ELSE res

\* lines 23-47: one bucket.  An exception that is no ClientError leaves the
\* loop and is caught at line 42.
CheckBucket_Assignment3 ==
    /\ pc = "check" /\ handler = "Assignment-3" /\ todo # <<>>
    /\ LET bucket == Head(todo)
       IN  \E enc \in EncryptionAnswers :
             /\ calls' = Append(calls, Call("get_bucket_encryption", bucket.Name, enc))
             /\ IF enc = "Exception"
                THEN Return(500, TextBody) /\ UNCHANGED results
                ELSE /\ results' = Unencrypted_Assignment3(results, bucket, enc)
                     /\ UNCHANGED <<pc, response>>
    /\ todo' = Tail(todo)
    /\ UNCHANGED <<handler, instances, buckets, env, event, tz, cfg, cutoff_date,
                   cleanup_results, page, npages, listed>>

\* lines 61-68
Report_Assignment3(bs, res) ==
    [total_buckets |-> Len(bs),
     unencrypted_buckets |-> res.unencrypted_buckets,
     unencrypted_count |-> Len(res.unencrypted_buckets)]

\* lines 49-68: every bucket was checked
Finish_Assignment3 ==
    /\ pc = "check" /\ handler = "Assignment-3" /\ todo = <<>>
    /\ Return(200, ResultsBody(FALSE, Report_Assignment3(buckets, results)))
    /\ UNCHANGED <<handler, instances, buckets, env, event, tz, cfg, cutoff_date,
                   results, cleanup_results, todo, page, npages, listed, calls>>

Next_Assignment3 ==
    \/ CreateClient_Assignment3
    \/ ListBuckets_Assignment3
    \/ CheckBucket_Assignment3
    \/ Finish_Assignment3

Next ==
    Next_a02 \/ Next_vijay \/ Next_a04 \/ Next_a01 \/ Next_a03 \/ Next_Assignment3

Spec == Init /\ [][Next]_vars

\* ====================================================================
\* Vocabulary of the properties
\* ====================================================================
Range(seq) == {seq[i] : i \in 1 .. Len(seq)}

DeleteOps == {"delete_object", "delete_snapshot"}
ListOps == {"list_objects_v2", "describe_snapshots"}
IsDelete(c) == c.op \in DeleteOps
IsFailedDelete(c) == c.op \in DeleteOps /\ c.outcome # "ok"
DeleteCalls == SelectSeq(calls, IsDelete)
FailedDeletes == SelectSeq(calls, IsFailedDelete)
DeletedKeys == {c.key : c \in {d \in Range(calls) : IsDelete(d) /\ d.outcome = "ok"}}
FailedKeys == {c.key : c \in Range(FailedDeletes)}
ListFailed == \E c \in Range(calls) : c.op \in ListOps /\ c.outcome # "ok"

Ended == pc \in {"done", "raised"}
Returned(code) == pc = "done" /\ response.statusCode = code

\* The accumulators exist once the client was created (a04: once the cleanup
\* started).
HasResults == \E c \in Range(calls) : c.op = "client" /\ c.outcome = "ok"
HasCleanup == \E c \in Range(calls) : c.op = "describe_snapshots"

\* The list of expired / deleted records the sweep keeps, and its errors.
Reported ==
    CASE handler = "a04" -> IF HasCleanup THEN cleanup_results.deleted_snapshots ELSE <<>>
      [] handler \in {"a02", "vijay"} -> IF HasResults THEN results.deleted_files ELSE <<>>
      [] OTHER -> <<>>

ReportedKey(e) ==
    CASE handler = "a02" -> e.key
      [] handler = "a04" -> e.snapshot_id
      [] OTHER -> e

ReportedKeys == {ReportedKey(e) : e \in Range(Reported)}

SweepErrors ==
    CASE handler = "a04" -> IF HasCleanup THEN cleanup_results.errors ELSE <<>>
      [] handler = "a02" -> IF HasResults THEN results.errors ELSE <<>>
      [] OTHER -> <<>>

RecordKey(r) == IF handler = "a04" THEN r.SnapshotId ELSE r.Key
RecordTime(r) == IF handler = "a04" THEN r.StartTime ELSE r.LastModified

\* What the handler's clock reads when it computes the cutoff: a02 and a04 read
\* UTC, vijay reads the local wall clock.
ClockReading == IF handler = "vijay" THEN Now + tz ELSE Now
RetentionCutoff == ClockReading - cfg.retention_days * SecondsPerDay

\* The listed records that are in the sweep's scope and older than the cutoff.
InScope(r) ==
    handler = "a04" => StartsWith(Get(r, "Description", S_empty), cfg.prefix)
ExpiredListed == {i \in 1 .. Len(listed) :
                    InScope(listed[i]) /\ RecordTime(listed[i]) < RetentionCutoff}

\* A record the sweep deleted, tried to delete, or reported.
TouchedKeys == ReportedKeys \cup {c.key : c \in Range(DeleteCalls)}
Touched(k) == k \in TouchedKeys

RECURSIVE SumSizes(_, _)
SumSizes(objs, keys) ==
    IF objs = <<>> THEN 0
    ELSE (IF Head(objs).Key \in keys THEN Head(objs).Size ELSE 0)
         + SumSizes(Tail(objs), keys)

RECURSIVE KeysOf(_)
KeysOf(entries) ==
    IF entries = <<>> THEN <<>> ELSE <<Head(entries).key>> \o KeysOf(Tail(entries))

\* ====================================================================
\* Properties
\* ====================================================================

\* C1 (as claimed): in a02 and vijay, a returned result has
\* deleted <= expired <= processed, and files_processed is the number of
\* objects listed, expired or not.
C1_CountsOrdered ==
    (Returned(200) /\ handler \in {"a02", "vijay"}) =>
        LET processed == IF handler = "a02"
                         THEN response.body.results.files_processed
                         ELSE response.body.result.files_processed
            deleted == IF handler = "a02"
                       THEN response.body.results.files_deleted
                       ELSE Cardinality(DeletedKeys)
            expired == Cardinality(ExpiredListed)
        IN  /\ deleted <= expired
            /\ expired <= processed
            /\ processed = Len(listed)

\* C1, the part that a02 keeps: the same statement for a02 alone.
C1_CountsOrdered_a02 == handler = "a02" => C1_CountsOrdered

\* C2: with dry_run true no delete_object / delete_snapshot call is ever made.
C2_DryRunNeverDeletes == cfg.dry_run => DeleteCalls = <<>>

\* C2 witness: a dry run of the snapshot cleanup ended with an expired snapshot
\* reported.
C2_Witness ==
    /\ handler = "a04" /\ Returned(200) /\ cfg.dry_run
    /\ ExpiredListed # {}
    /\ Reported # <<>>

C2_Witness_a02 ==
    /\ handler = "a02" /\ Returned(200) /\ cfg.dry_run
    /\ ExpiredListed # {} /\ Reported # <<>>

C2_Witness_vijay ==
    /\ handler = "vijay" /\ Returned(200) /\ cfg.dry_run
    /\ ExpiredListed # {} /\ Reported # <<>>

\* C3 (as claimed): after a dry run the reported deleted count is 0:
\* files_deleted of a02, total_snapshots_cleaned of a04.
C3_DryRunReportsNoDeletion ==
    (Returned(200) /\ cfg.dry_run) =>
        /\ handler = "a02" => response.body.results.files_deleted = 0
        /\ handler = "a04" => response.body.results.total_snapshots_cleaned = 0

\* C3, the part that a02 keeps.
C3_DryRunReportsNoDeletion_a02 == handler = "a02" => C3_DryRunReportsNoDeletion

\* C4: a record whose time equals the cutoff (the handler's clock reading minus
\* the retention period) is neither deleted nor reported; only records
\* strictly older than the cutoff are.
C4_BoundaryRetained ==
    LET touched == TouchedKeys
        cutoff == RetentionCutoff
    IN  \A i \in 1 .. Len(listed) :
            /\ RecordTime(listed[i]) = cutoff => RecordKey(listed[i]) \notin touched
            /\ RecordKey(listed[i]) \in touched => RecordTime(listed[i]) < cutoff

\* C4 witness: a sweep ended that listed a record exactly at the cutoff and
\* deleted an older one.
C4_Witness ==
    /\ handler = "a02" /\ Returned(200)
    /\ \E i \in 1 .. Len(listed) : listed[i].LastModified = RetentionCutoff
    /\ DeletedKeys # {}

C4_Witness_vijay ==
    /\ handler = "vijay" /\ Returned(200)
    /\ \E i \in 1 .. Len(listed) : listed[i].LastModified = RetentionCutoff
    /\ DeletedKeys # {}

C4_Witness_a04 ==
    /\ handler = "a04" /\ Returned(200)
    /\ \E i \in 1 .. Len(listed) :
          listed[i].StartTime = RetentionCutoff /\ InScope(listed[i])
    /\ DeletedKeys # {}

\* C5 (as claimed): in a sweep that is no dry run, the errors list has exactly
\* one entry per record whose delete call failed and none for another record,
\* and the deleted count is the number of expired records minus the failures.
C5_PartialFailure ==
    (/\ pc = "done" /\ ~cfg.dry_run /\ ~ListFailed
     /\ \/ handler = "a02" /\ response.body.kind = "results"
        \/ handler = "a04" /\ response.statusCode = 200) =>
        LET deleted == IF handler = "a02" THEN results.files_deleted
                       ELSE Len(cleanup_results.deleted_snapshots)
        IN  /\ KeysOf(SweepErrors) = KeysOf(FailedDeletes)
            /\ deleted = Cardinality(ExpiredListed) - Len(FailedDeletes)

\* C5, restricted to the failures the per-item handlers catch (a04: all,
\* a02: ClientError).
C5_PartialFailure_Caught ==
    (\A c \in Range(FailedDeletes) : handler = "a02" => c.outcome = "ClientError")
        => C5_PartialFailure

\* C6 (as claimed): a failed delete call, of whatever kind, does not abort the
\* sweep: the rest of the listing is examined, every expired record has its
\* delete attempted, and the invocation returns 200.
C6_DeleteFailureNeverAborts ==
    (Ended /\ FailedDeletes # <<>> /\ ~ListFailed) =>
        /\ Returned(200)
        /\ page = <<>>
        /\ \A i \in ExpiredListed : \E c \in Range(DeleteCalls) : c.key = RecordKey(listed[i])

\* C6, for the handlers other than a02.
C6_DeleteFailureNeverAborts_Others == handler # "a02" => C6_DeleteFailureNeverAborts

\* C7: a record whose delete call failed is not in the list of deleted
\* records and its size is not in total_size_deleted; an entry with action
\* 'deleted' has a delete call that succeeded.
C7_FailedNeverReported ==
    LET deleted == DeletedKeys
        reported == ReportedKeys
        failed == FailedKeys
    IN  /\ failed \cap reported = {}
        /\ handler \in {"a02", "a04"} =>
              \A e \in Range(Reported) :
                  e.action = "deleted" => ReportedKey(e) \in deleted
        /\ (handler = "a02" /\ HasResults) =>
              results.total_size_deleted = SumSizes(listed, deleted)
        /\ (handler = "vijay" /\ HasResults) =>
              results.total_size_deleted = SumSizes(listed, reported)
        /\ (handler = "a04" /\ pc = "done" /\ response.statusCode = 200) =>
              failed \cap {e.snapshot_id : e \in Range(results.snapshots_deleted)} = {}

\* C7 witness: a sweep ended in which one delete failed, for an object of
\* positive size, and another succeeded.
C7_Witness ==
    /\ handler = "a02" /\ Returned(200)
    /\ \E i \in 1 .. Len(listed) : listed[i].Key \in FailedKeys /\ listed[i].Size > 0
    /\ results.total_size_deleted > 0

C7_Witness_vijay ==
    /\ handler = "vijay" /\ Returned(200)
    /\ \E i \in 1 .. Len(listed) : listed[i].Key \in FailedKeys /\ listed[i].Size > 0
    /\ results.total_size_deleted > 0

C7_Witness_a04 ==
    /\ handler = "a04" /\ Returned(200)
    /\ FailedKeys # {} /\ DeletedKeys # {}

\* The required configuration is missing.
MissingConfig ==
    CASE handler = "a02" -> ~Truthy(BucketName_a02(env, event))
      [] handler = "vijay" -> ~Truthy(BucketName_vijay(env, event))
      [] handler = "a04" -> VolumeIds_a04(env, event) = <<>>
      [] OTHER -> FALSE

\* C8 (as claimed): with the required configuration missing the handler
\* returns 400 and makes no provider call.
C8_MissingConfigReturns400 ==
    MissingConfig =>
        /\ calls = <<>>
        /\ pc # "start" => Returned(400)

\* C8, when the retention period is numeric.
C8_MissingConfigReturns400_Numeric ==
    IsIntLiteral(RetentionRaw(env, event)) => C8_MissingConfigReturns400

\* The provider answered that the bucket does not exist.
BucketAbsent == \E c \in Range(calls) : c.outcome \in {"404", "NoSuchBucket"}

\* C9 (as claimed): in a02 and vijay, when the bucket does not exist the
\* invocation returns 404 and no object is listed or deleted.
C9_MissingBucketReturns404 ==
    (Ended /\ handler \in {"a02", "vijay"} /\ BucketAbsent) =>
        /\ Returned(404)
        /\ listed = <<>>
        /\ DeleteCalls = <<>>

\* C9, for a02 alone.
C9_MissingBucketReturns404_a02 == handler = "a02" => C9_MissingBucketReturns404

\* C10 (as claimed): when the listing call fails the invocation returns 500
\* and the body carries the results accumulated so far.
C10_ListFailureReturns500 ==
    (Ended /\ ListFailed) =>
        /\ Returned(500)
        /\ response.body.kind = "results"
        /\ response.body.results = results

\* C10, for a02 alone.
C10_ListFailureReturns500_a02 == handler = "a02" => C10_ListFailureReturns500

\* C11 (as claimed): every invocation ends by returning {statusCode, body}
\* with statusCode in {200, 400, 404, 500} and a JSON body; no exception
\* leaves lambda_handler.
C11_AlwaysReturns ==
    Ended =>
        /\ pc = "done"
        /\ response.statusCode \in {200, 400, 404, 500}
        /\ response.body.kind \in {"text", "results", "result"}

\* C11, when the retention period is numeric and the handler is neither vijay
\* nor Assignment-3 (whose clients are created outside any try).
C11_AlwaysReturns_Numeric ==
    (handler \notin {"vijay", "Assignment-3"} /\ IsIntLiteral(RetentionRaw(env, event)))
        => C11_AlwaysReturns

\* A call that deletes or creates something.
IsChange(c) == c.op \in {"delete_object", "delete_snapshot", "create_snapshot"}

\* C12 (as claimed): with DRY_RUN unset in the environment and dry_run true
\* in the event, a02 and a04 run as a dry run and make no delete or create
\* call.
C12_EventDryRunHonoured ==
    (/\ handler \in {"a02", "a04"}
     /\ "DRY_RUN" \notin DOMAIN env
     /\ Get(event, "dry_run", PyFalse) = PyTrue) =>
        SelectSeq(calls, IsChange) = <<>>

\* C12, the options that do fall back to the event: bucket_name,
\* retention_days and volume_ids are read from the event when the environment
\* does not set them.
C12_EventFallback ==
    (pc \notin {"start", "raised"}) =>
        /\ (handler \in {"a02", "vijay"} /\ "BUCKET_NAME" \notin DOMAIN env
            /\ "bucket_name" \in DOMAIN event) => cfg.bucket = event.bucket_name
        /\ (handler \in {"a02", "vijay", "a04"} /\ "RETENTION_DAYS" \notin DOMAIN env
            /\ "retention_days" \in DOMAIN event) =>
               cfg.retention_days = PyInt(event.retention_days)
        /\ (handler = "a04" /\ "VOLUME_IDS" \notin DOMAIN env
            /\ "volume_ids" \in DOMAIN event) =>
               cfg.volume_ids = NonEmptyStripped(Split(event.volume_ids))

\* What a dry run reports for a listing: a function of the listing, the
\* cutoff and the reference time alone.
RECURSIVE DryRunReport(_)
DryRunReport(recs) ==
    IF recs = <<>> THEN <<>>
    ELSE (IF InScope(Head(recs)) /\ RecordTime(Head(recs)) < RetentionCutoff
          THEN <<IF handler = "a04"
                 THEN Entry_a04(Head(recs), Now, "would_delete")
                 ELSE Entry_a02(Head(recs), Now, "would_delete")>>
          ELSE <<>>)
         \o DryRunReport(Tail(recs))

\* C14: the expired records a dry run of a02 or a04 reports are determined,
\* in order and content, by the listing, the retention period and the
\* reference time (whatever the paging), and the run makes no call that
\* changes the listing; so a second run on the same listing reports the same.
C14_DryRunIdempotent ==
    (handler \in {"a02", "a04"} /\ Returned(200) /\ cfg.dry_run) =>
        /\ Reported = DryRunReport(listed)
        /\ SelectSeq(calls, IsChange) = <<>>

\* C14 witness: a dry run of a02 ended that listed two expired objects on two
\* pages.
C14_Witness ==
    /\ handler = "a02" /\ Returned(200) /\ cfg.dry_run
    /\ Cardinality(ExpiredListed) = 2
    /\ npages = 2 /\ listed[1].Key # listed[2].Key

C14_Witness_a04 ==
    /\ handler = "a04" /\ Returned(200) /\ cfg.dry_run
    /\ Cardinality(ExpiredListed) = 2

\* The listing of the scenario: three objects aged 10, 40 and 60 days.
ScenarioListed == Len(listed) = 3 /\ ListedTimes(listed) = ScenarioTimestamps

\* The objects of the listing older than 30 days, in listing order.
OlderThan30 == SelectSeq(listed, LAMBDA o : o.LastModified < Now - 30 * SecondsPerDay)

\* C15: a02 with retention 30 and no dry run, on three objects aged 10, 40 and
\* 60 days whose deletes all succeed, returns files_processed 3,
\* files_deleted 2 and deleted_files = the 40-day and the 60-day object,
\* each 'deleted', in listing order; the 10-day object is neither deleted nor
\* reported.
C15_ThreeObjects ==
    (/\ handler = "a02" /\ Ended /\ ScenarioListed
     /\ cfg.retention_days = 30 /\ ~cfg.dry_run
     /\ FailedDeletes = <<>> /\ ~ListFailed) =>
        /\ Returned(200)
        /\ response.body.results.files_processed = 3
        /\ response.body.results.files_deleted = 2
        /\ Len(response.body.results.deleted_files) = 2
        /\ \A i \in 1 .. 2 :
              LET e == response.body.results.deleted_files[i]
              IN  /\ e.key = OlderThan30[i].Key
                  /\ e.last_modified = OlderThan30[i].LastModified
                  /\ e.action = "deleted"
        /\ [i \in 1 .. Len(DeleteCalls) |-> DeleteCalls[i].key]
              = [i \in 1 .. 2 |-> OlderThan30[i].Key]
        /\ response.body.results.errors = <<>>

\* C15 witness: the scenario ran to its end, the 10-day object listed between
\* the two old ones.
C15_Witness ==
    /\ handler = "a02" /\ Returned(200) /\ ScenarioListed
    /\ FailedDeletes = <<>>
    /\ listed[2].LastModified = Now - 10 * SecondsPerDay
    /\ results.files_deleted = 2

\* The sweep ran over an empty listing: the listing was answered without a
\* failure and held no record.
EmptySweep ==
    /\ Ended /\ listed = <<>>
    /\ CASE handler = "a04" ->
              \E c \in Range(calls) : c.op = "describe_snapshots" /\ c.outcome = "ok"
         [] handler \in {"a02", "vijay"} ->
              HasResults /\ \A c \in Range(calls) : c.outcome = "ok"
         [] OTHER -> FALSE

\* C16: over an empty listing (no page, pages without 'Contents', no
\* snapshot) the sweep returns 200 with every count 0, no expired or deleted
\* record and no error, and makes no delete call.
C16_EmptyListing ==
    EmptySweep =>
        /\ Returned(200)
        /\ DeleteCalls = <<>>
        /\ handler = "a02" =>
              /\ response.body.results.files_processed = 0
              /\ response.body.results.files_deleted = 0
              /\ response.body.results.total_size_deleted = 0
              /\ response.body.results.deleted_files = <<>>
              /\ response.body.results.errors = <<>>
        /\ handler = "vijay" =>
              /\ response.body.result.files_processed = 0
              /\ response.body.result.total_size_mb = 0
              /\ response.body.result.error_count = 0
        /\ handler = "a04" =>
              /\ response.body.results.total_snapshots_cleaned = 0
              /\ response.body.results.snapshots_deleted = <<>>
              /\ cleanup_results.deleted_snapshots = <<>>
              /\ cleanup_results.errors = <<>>

\* C16 witness: a02 ended after two pages that carried no 'Contents'.
C16_Witness == handler = "a02" /\ EmptySweep /\ npages = 2

C16_Witness_NoPage == handler = "vijay" /\ EmptySweep /\ npages = 0

C16_Witness_a04 == handler = "a04" /\ EmptySweep

\* C17: the snapshot cleanup deletes or reports a snapshot only if its
\* description starts with the configured prefix and it is older than the
\* cutoff; a snapshot with another description, or with none, is neither
\* deleted nor reported, however old it is.
C17_ScopeRespected ==
    handler = "a04" =>
        /\ \A i \in 1 .. Len(listed) :
              LET sn == listed[i]
                  matches == StartsWith(Get(sn, "Description", S_empty), cfg.prefix)
              IN  /\ Touched(sn.SnapshotId) =>
                        matches /\ sn.StartTime < Cutoff_a04(Now, cfg.retention_days)
                  /\ ~matches => ~Touched(sn.SnapshotId)
        /\ Returned(200) =>
              \A e \in Range(response.body.results.snapshots_deleted) :
                  StartsWith(e.description, cfg.prefix)

\* C17 witness: the cleanup ended having deleted a snapshot and having listed
\* a 40-day-old snapshot that carries no description.
C17_Witness ==
    /\ handler = "a04" /\ Returned(200) /\ DeletedKeys # {}
    /\ \E i \in 1 .. Len(listed) :
          /\ "Description" \notin DOMAIN listed[i]
          /\ listed[i].StartTime < Cutoff_a04(Now, cfg.retention_days)

C17_Witness_OtherDescription ==
    /\ handler = "a04" /\ Returned(200) /\ DeletedKeys # {}
    /\ \E i \in 1 .. Len(listed) :
          /\ "Description" \in DOMAIN listed[i]
          /\ ~StartsWith(listed[i].Description, cfg.prefix)
          /\ listed[i].StartTime < Cutoff_a04(Now, cfg.retention_days)

\* The calls of the snapshot step of one volume that failed.
IsVolumeFailure(c) == c.op \in {"describe_volumes", "create_snapshot"} /\ c.outcome # "ok"
IsDescribeVolumes(c) == c.op = "describe_volumes"
CallKeys(cs) == [i \in 1 .. Len(cs) |-> cs[i].key]

\* C18: in a04 a failed snapshot step of one volume leaves exactly one error
\* entry for that volume, the remaining volumes still have their snapshot
\* attempted, the cleanup still runs and the invocation returns 200;
\* volumes_processed is the number of volumes whose step succeeded.
C18_VolumeFailureRecovered ==
    (handler = "a04" /\ pc \in {"cleanup", "done"} /\ HasResults) =>
        LET failures == SelectSeq(calls, IsVolumeFailure)
            own == IF pc = "done" THEN Len(cleanup_results.errors) ELSE 0
            nverr == Len(results.errors) - own
        IN  /\ CallKeys(SelectSeq(calls, IsDescribeVolumes)) = cfg.volume_ids
            /\ nverr = Len(failures)
            /\ \A i \in 1 .. Len(failures) : results.errors[i].key = failures[i].key
            /\ results.volumes_processed = Len(cfg.volume_ids) - Len(failures)
            /\ results.volumes_processed = Len(results.snapshots_created)
            /\ HasCleanup
            /\ pc = "done" => Returned(200)

\* C18 witness: of two requested volumes the first one's create_snapshot
\* failed, the second one's snapshot was created, and the handler returned.
C18_Witness ==
    /\ handler = "a04" /\ Returned(200)
    /\ Len(cfg.volume_ids) = 2
    /\ \E i \in 1 .. Len(calls) :
          /\ calls[i].op = "create_snapshot" /\ calls[i].outcome # "ok"
          /\ \E j \in (i + 1) .. Len(calls) :
                calls[j].op = "create_snapshot" /\ calls[j].outcome = "ok"
    /\ results.volumes_processed = 1

C18_Witness_NotFound ==
    /\ handler = "a04" /\ Returned(200)
    /\ \E c \in Range(calls) : c.op = "describe_volumes" /\ c.outcome = "NotFound"
    /\ results.volumes_processed = 1

\* Occurrences of x in a sequence.
Count(seq, x) == Cardinality({i \in 1 .. Len(seq) : seq[i] = x})
CallsOf(op) == SelectSeq(calls, LAMBDA c : c.op = op)

\* C13: nothing is retried: within one invocation a record has at most one
\* delete call, a requested volume id at most one create_snapshot call per
\* occurrence, and stop_instances and start_instances are called at most once
\* each, also when the call fails.
C13_NoRetries ==
    LET deletes == CallKeys(DeleteCalls)
        creates == CallKeys(CallsOf("create_snapshot"))
    IN  /\ \A i, j \in 1 .. Len(deletes) : deletes[i] = deletes[j] => i = j
        /\ handler = "a04" =>
              \A k \in 1 .. Len(creates) :
                  Count(creates, creates[k]) <= Count(cfg.volume_ids, creates[k])
        /\ Len(CallsOf("stop_instances")) <= 1
        /\ Len(CallsOf("start_instances")) <= 1

\* C13 witness: a01 returned after its stop call had failed and its start
\* call was made.
C13_Witness ==
    /\ handler = "a01" /\ Returned(200)
    /\ \E c \in Range(calls) : c.op = "stop_instances" /\ c.outcome = "ClientError"
    /\ CallsOf("start_instances") # <<>>

C13_Witness_Delete ==
    /\ handler \in {"a02", "vijay", "a04"} /\ Returned(200)
    /\ FailedDeletes # <<>> /\ Len(DeleteCalls) = 2

C13_Witness_Create ==
    /\ handler = "a04" /\ Returned(200)
    /\ \E c \in Range(calls) : c.op = "create_snapshot" /\ c.outcome # "ok"

\* The instance of the provider's answer with the given id.
InstanceOf(id) == CHOOSE inst \in Range(Flatten(instances)) : inst.InstanceId = id
HasActionTag(inst, v) ==
    \E t \in Range(Get(inst, "Tags", <<>>)) : t.Key = "Action" /\ t.Value = v
StopIds == UNION {Range(c.key) : c \in Range(CallsOf("stop_instances"))}
StartIds == UNION {Range(c.key) : c \in Range(CallsOf("start_instances"))}
Described == \E c \in Range(calls) : c.op = "describe_instances" /\ c.outcome = "ok"

\* C20 (as claimed): in a01 every id passed to stop_instances is of a running
\* instance tagged Action = Auto-Stop, every id passed to start_instances is
\* of a stopped instance tagged Action = Auto-Start, no id is passed to both,
\* and once the invocation has ended every such instance was passed to its
\* call, a failed stop call notwithstanding.
C20_PowerByTag ==
    handler = "a01" =>
        /\ \A id \in StopIds :
              HasActionTag(InstanceOf(id), "Auto-Stop") /\ InstanceOf(id).State = "running"
        /\ \A id \in StartIds :
              HasActionTag(InstanceOf(id), "Auto-Start") /\ InstanceOf(id).State = "stopped"
        /\ StopIds \cap StartIds = {}
        /\ (Ended /\ Described) =>
              \A inst \in Range(Flatten(instances)) :
                  /\ (HasActionTag(inst, "Auto-Stop") /\ inst.State = "running")
                        => inst.InstanceId \in StopIds
                  /\ (HasActionTag(inst, "Auto-Start") /\ inst.State = "stopped")
                        => inst.InstanceId \in StartIds

\* C20, when the stop call fails with a ClientError or not at all.
C20_PowerByTag_ClientError ==
    (\A c \in Range(CallsOf("stop_instances")) : c.outcome \in {"ok", "ClientError"})
        => C20_PowerByTag

\* The handler returned 200 with the notification as its last call, made once.
NotifiedOnce ==
    /\ Len(CallsOf("publish")) = 1
    /\ calls[Len(calls)].op = "publish"

\* C19 (as claimed): when a03 or a04 completes with SNS_TOPIC_ARN set, exactly
\* one notification is published, after all per-item work; with the topic
\* unset or empty none is published; a failed publish leaves the 200 result.
C19_NotifyOnCompletion ==
    /\ (handler \in {"a03", "a04"} /\ Returned(200)) =>
          IF Truthy(cfg.sns_topic_arn) THEN NotifiedOnce ELSE CallsOf("publish") = <<>>
    /\ (Ended /\ \E c \in Range(CallsOf("publish")) : c.outcome # "ok") => Returned(200)

\* A notification is due: a04 notifies whenever the topic is configured, a03
\* only when it also counted a bucket as unencrypted.
NotificationDue ==
    /\ Truthy(cfg.sns_topic_arn)
    /\ handler = "a03" => results.unencrypted_buckets > 0

\* C19 (amended): when a03 or a04 completes, exactly one notification is
\* published, after all per-item work, if SNS_TOPIC_ARN is set and, in a03, at
\* least one bucket was counted as unencrypted; otherwise none is published;
\* a failed publish leaves the 200 result.
C19_NotifyWhenDue ==
    /\ (handler \in {"a03", "a04"} /\ Returned(200)) =>
          IF NotificationDue THEN NotifiedOnce ELSE CallsOf("publish") = <<>>
    /\ (Ended /\ \E c \in Range(CallsOf("publish")) : c.outcome # "ok") => Returned(200)

\* C19 witness: a03 with a topic configured analysed two buckets, counted one
\* as unencrypted, and returned 200 although the publish failed.
C19_Witness ==
    /\ handler = "a03" /\ Returned(200) /\ Truthy(cfg.sns_topic_arn)
    /\ Len(buckets) = 2 /\ results.unencrypted_buckets = 1
    /\ \E c \in Range(calls) : c.op = "publish" /\ c.outcome = "Exception"

C19_Witness_NothingToReport ==
    /\ handler = "a03" /\ Returned(200) /\ Truthy(cfg.sns_topic_arn)
    /\ Len(buckets) = 2 /\ results.encrypted_buckets = 2
    /\ CallsOf("publish") = <<>>

C19_Witness_a04 ==
    /\ handler = "a04" /\ Returned(200) /\ Truthy(cfg.sns_topic_arn)
    /\ DeleteCalls # <<>>
    /\ \E c \in Range(calls) : c.op = "publish" /\ c.outcome = "Exception"

C19_Witness_Unset ==
    /\ handler = "a03" /\ Returned(200) /\ "SNS_TOPIC_ARN" \in DOMAIN env
    /\ ~Truthy(cfg.sns_topic_arn) /\ results.unencrypted_buckets > 0

\* The audit handlers, the names they report as unencrypted and their count.
AuditHandlers == {"Assignment-3", "a03"}

ReportedUnencrypted ==
    CASE handler = "Assignment-3" /\ HasResults -> Range(results.unencrypted_buckets)
      [] handler = "a03" /\ HasResults ->
           {d.name : d \in Range(results.unencrypted_bucket_details)}
      [] OTHER -> {}

UnencryptedCount ==
    CASE handler = "Assignment-3" /\ HasResults -> Len(results.unencrypted_buckets)
      [] handler = "a03" /\ HasResults -> results.unencrypted_buckets
      [] OTHER -> 0

\* The buckets whose encryption lookup answered with the given answer.
LookupAnswered(answer) ==
    {c.key : c \in {d \in Range(calls) :
                      d.op = "get_bucket_encryption" /\ d.outcome = answer}}

NoConfiguration == LookupAnswered("ServerSideEncryptionConfigurationNotFoundError")

\* C21 (as claimed): in both audit handlers a bucket is listed and counted as
\* unencrypted only if its encryption lookup answered that no server-side
\* encryption configuration exists; a bucket whose lookup failed otherwise
\* (access denied) is not reported.
C21_UnencryptedOnlyIfNoConfiguration ==
    handler \in AuditHandlers =>
        /\ ReportedUnencrypted \subseteq NoConfiguration
        /\ UnencryptedCount <= Cardinality(NoConfiguration)
        /\ ReportedUnencrypted \cap LookupAnswered("AccessDenied") = {}

\* C21 holds of Assignment-3, where exactly the buckets without a
\* configuration are reported.
C21_UnencryptedOnlyIfNoConfiguration_Assignment3 ==
    handler = "Assignment-3" =>
        /\ ReportedUnencrypted = NoConfiguration
        /\ UnencryptedCount = Cardinality(NoConfiguration)
        /\ Returned(200) =>
              /\ response.body.results.unencrypted_buckets = results.unencrypted_buckets
              /\ response.body.results.unencrypted_count = UnencryptedCount

\* Assignment-3 returned having met a bucket without configuration and a
\* bucket whose lookup was denied.
C21_Witness_Assignment3 ==
    /\ handler = "Assignment-3" /\ Returned(200)
    /\ NoConfiguration # {} /\ LookupAnswered("AccessDenied") # {}

\* Neither DRY_RUN in the environment nor dry_run in the event is given.
DryRunUnset == "DRY_RUN" \notin DOMAIN env /\ "dry_run" \notin DOMAIN event

\* The listed objects the sweep has examined so far, and the keys of the
\* expired ones among them, in listing order.
Examined == SubSeq(listed, 1, Len(listed) - Len(page))
ExaminedExpiredKeys ==
    LET expired == SelectSeq(Examined, LAMBDA r : RecordTime(r) < RetentionCutoff)
    IN  [i \in 1 .. Len(expired) |-> RecordKey(expired[i])]

\* C22: with DRY_RUN unset and no dry_run key in the event, vijay-s3-cleanup
\* runs as a dry run and makes no delete_object call, while assignment_02 runs
\* as a real sweep: it makes one delete_object call for every expired object
\* it examines and for no other, so a sweep that ran to its end has called
\* delete_object for every expired object of the listing.
C22_DryRunDefaultsDiffer ==
    (DryRunUnset /\ HasResults) =>
        /\ handler = "vijay" => cfg.dry_run /\ DeleteCalls = <<>>
        /\ handler = "a02" =>
              /\ ~cfg.dry_run
              /\ CallKeys(DeleteCalls) = ExaminedExpiredKeys
              /\ Returned(200) => Len(DeleteCalls) = Cardinality(ExpiredListed)

\* C22 witness: assignment_02, nothing said about dry_run, swept a listing of
\* an expired and an unexpired object to its end and called delete_object.
C22_Witness ==
    /\ handler = "a02" /\ DryRunUnset /\ Returned(200)
    /\ Len(listed) = 2 /\ Cardinality(ExpiredListed) = 1
    /\ Len(DeleteCalls) = 1

\* vijay-s3-cleanup, nothing said about dry_run, ended a sweep that reported
\* an expired object without deleting it.
C22_Witness_vijay ==
    /\ handler = "vijay" /\ DryRunUnset /\ Returned(200)
    /\ ExpiredListed # {} /\ Reported # <<>> /\ DeleteCalls = <<>>

\* assignment_02, nothing said about dry_run, was stopped by a failing delete
\* with an expired object of the page not yet examined.
C22_Witness_Aborted ==
    /\ handler = "a02" /\ DryRunUnset /\ Returned(500)
    /\ Len(DeleteCalls) = 1 /\ page # <<>>

\* The ids of the snapshots this invocation created.
CreatedIds ==
    IF handler = "a04" /\ HasResults
    THEN {e.snapshot_id : e \in {c \in Range(results.snapshots_created) :
                                   c.action = "created"}}
    ELSE {}

\* The calls of the snapshot step of a04.
SnapshotStepOps == {"describe_volumes", "create_snapshot", "create_tags"}

\* C23: in a04 every call of the snapshot step, for all requested volumes,
\* precedes the cleanup's describe_snapshots; and with retention_days >= 1 a
\* snapshot created by the invocation is neither deleted, nor attempted, nor
\* reported by the cleanup of the same invocation, although the listing shows
\* it with a description that starts with the prefix.
C23_NewSnapshotsSurvive ==
    (handler = "a04" /\ HasResults) =>
        /\ \A i, j \in 1 .. Len(calls) :
              (calls[i].op \in SnapshotStepOps /\ calls[j].op = "describe_snapshots")
                  => i < j
        /\ HasCleanup => CallKeys(SelectSeq(calls, IsDescribeVolumes)) = cfg.volume_ids
        /\ cfg.retention_days >= 1 => \A k \in CreatedIds : ~Touched(k)

\* C23 witness: with retention_days 1 the cleanup ended having deleted an
\* older snapshot, its listing showing a snapshot the invocation had created a
\* minute before, under a description that starts with the prefix and ends
\* with the time of the snapshot's creation.
C23_Witness ==
    /\ handler = "a04" /\ Returned(200) /\ cfg.retention_days = 1
    /\ DeletedKeys # {}
    /\ \E i \in 1 .. Len(listed) :
          /\ listed[i].SnapshotId \in CreatedIds
          /\ StartsWith(listed[i].Description, cfg.prefix)
          /\ listed[i].StartTime < Now
          /\ \E v \in DOMAIN cfg.volume_ids :
                listed[i].Description =
                    Description_a04(cfg.prefix, cfg.volume_ids[v],
                                    listed[i].StartTime)

\* With retention_days 0 the cleanup deletes a snapshot its own invocation
\* created: the bound of C23 is sharp.
C23_Witness_ZeroRetention ==
    /\ handler = "a04" /\ Returned(200) /\ cfg.retention_days = 0
    /\ CreatedIds \cap DeletedKeys # {}

====
